---- MODULE Spec2Model ----
(***************************************************************************)
(* pg_sqlite_fs: a PostgreSQL extension that maintains, in one SQLite      *)
(* file, the entries / files / extended_attributes tables of a file-system *)
(* index.  The repository holds two variants of the extension,             *)
(* src/src/pg.c and src/src/pg_sqlite_fs.c; the variable build says which  *)
(* one is compiled.  Every exported function is one action; its effect on  *)
(* the store file is computed by an operator of the same name.             *)
(***************************************************************************)
EXTENDS Integers, Sequences, FiniteSets, TLC

VARIABLES
    traps,      \* a read through a NULL pointer ends the backend process
    nullread,   \* where it does not: the bytes read there as a string are
                \* a prefix of the path they are compared with
    build,      \* which variant is compiled: "pg" or "pg_sqlite_fs"
    location,   \* the GUC sqlite_fs.location: <<>> (NULL) or <<path>>
    exists,     \* the store file exists on disk
    schema,     \* the tables and indexes of pg_sqlite_fs_create exist in it
    entries,    \* rows of table entries
    files,      \* rows of table files
    attrs,      \* rows of table extended_attributes
    op,         \* the function called last
    result,     \* how it ended: "true", "false", "error" (ereport(ERROR))
                \* or "crash" (the backend process died)
    stage,      \* the place where the last call left its main path
    txn,        \* how the last call closed its transaction
    written,    \* rows the last bulk load stepped successfully
    changed,    \* the last call left the store file other than it found it
    db,         \* the sqlite3 handle of the last call: "closed" or "open"
    callers,    \* per backend process: the bulk load it is in the middle of
    reserved,   \* the process holding the write lock of the store file, or 0
    serial      \* table entries had the calls that committed run one by one

vars == <<traps, nullread, build, location, exists, schema, entries, files, attrs,
          op, result, stage, txn, written, changed, db,
          callers, reserved, serial>>

----------------------------------------------------------------------------
(* Bounds and input domains *)

MaxRows == 2

Builds == {"pg", "pg_sqlite_fs"}

Null == <<>>
Some(v) == <<v>>
IsNull(x) == x = <<>>

Inodes == {1, 2, 3}
Names == {"/", "a"}

\* Paths are [abs, parts]; the store lives at StorePath.
RootDir == [abs |-> TRUE, parts |-> <<"fs">>]
StorePath == [abs |-> TRUE, parts |-> <<"fs", "db">>]
OutsidePath == [abs |-> TRUE, parts |-> <<"etc", "db">>]
RelativePath == [abs |-> FALSE, parts |-> <<"fs", "db">>]
MissingDirPath == [abs |-> TRUE, parts |-> <<"fs", "none", "db">>]
Paths == {StorePath, OutsidePath, RelativePath, MissingDirPath}

----------------------------------------------------------------------------
(* The store file and the outcome of a call *)

Store(e, s, en, fi, at) ==
    [exists |-> e, schema |-> s, entries |-> en, files |-> fi, attrs |-> at]

AbsentStore == Store(FALSE, FALSE, {}, {}, {})

Cur == Store(exists, schema, entries, files, attrs)

Out(st, res, stg, tx, w) ==
    [st |-> st, res |-> res, stage |-> stg, txn |-> tx, written |-> w,
     db |-> "closed"]

\* An exit taken after sqlite3_open or sqlite3_open_v2 has filled in the
\* handle and before any sqlite3_close: the handle stays allocated.
NoClose(o) == [o EXCEPT !.db = "open"]

\* ereport(ERROR)/elog(ERROR): the call is left by a non-local exit.
Raise(st, stg) == Out(st, "error", stg, "none", 0)

\* PG_RETURN_BOOL((rc) ? false : true) of a single-statement function.
Return(st, ok, stg) == Out(st, IF ok THEN "true" ELSE "false", stg, "none", 0)

is_absolute_path(p) == p.abs

path_is_prefix_of_path(a, b) ==
    /\ Len(a.parts) <= Len(b.parts)
    /\ SubSeq(b.parts, 1, Len(a.parts)) = a.parts

\* TRUE iff convert_and_check_path returns the path.  pg.c raises on a
\* NULL location; pg_sqlite_fs.c has no such test and hands the NULL pointer
\* to path_is_prefix_of_path, which reads through it.
convert_and_check_path(b, loc, p) ==
    /\ is_absolute_path(p)
    /\ IF IsNull(loc)
       THEN b = "pg_sqlite_fs" /\ ~traps /\ nullread
       ELSE path_is_prefix_of_path(loc[1], p)

\* How a call is left when convert_and_check_path does not return the path:
\* by ereport(ERROR), or by the end of the process on the read through NULL.
Refuse(b, loc, p, st) ==
    IF is_absolute_path(p) /\ IsNull(loc) /\ b = "pg_sqlite_fs" /\ traps
    THEN Out(st, "crash", "path", "none", 0)
    ELSE Raise(st, "path")

\* sqlite3_open: SQLITE_OPEN_READWRITE | SQLITE_OPEN_CREATE creates the file.
sqlite3_open(st) == [st EXCEPT !.exists = TRUE]

\* The file system holds the directory RootDir and, when it exists, the one
\* store file StorePath: a file can be opened or created in RootDir only.
CanOpen(p) == SubSeq(p.parts, 1, Len(p.parts) - 1) = RootDir.parts

----------------------------------------------------------------------------
(* The SQL statements, as SQLite executes them on the schema of            *)
(* pg_sqlite_fs_create: entries has PRIMARY KEY(inode) and the UNIQUE      *)
(* index names(parent_inode, name); files has PRIMARY KEY(inode).          *)

EntryCols ==
    {"inode", "name", "parent_inode", "decrypted_size",
     "ctime", "mtime", "nlink", "size", "is_dir"}

\* A row of entries.  pg.c has no column decrypted_size: it stays Null there.
Entry(i, n, p, ds, ct, mt, nl, sz, d) ==
    [inode |-> i, name |-> n, parent_inode |-> p, decrypted_size |-> ds,
     ctime |-> ct, mtime |-> mt, nlink |-> nl, size |-> sz, is_dir |-> d]

\* INSERT INTO entries(inode, name, parent_inode) VALUES (1, '/', 1) with the
\* column defaults of CREATE TABLE entries.
RootEntry == Entry(1, "/", 1, Null, 0, 0, 1, 0, 1)

\* The index names were created without UNIQUE.
NoUniqueIndexes == {}

\* "CREATE UNIQUE INDEX names ON entries(parent_inode, name)": the column
\* lists of the UNIQUE indexes of entries besides the primary key; files
\* has none.
EntryIndexes == {{"parent_inode", "name"}}

FileIndexes == {}

\* A row of tbl holds the values of row in every column of an index.
UniqueConflict(tbl, row, indexes) ==
    \E x \in tbl, cols \in indexes : \A c \in cols : x[c] = row[c]

NamesConflict(tbl, row) == UniqueConflict(tbl, row, EntryIndexes)

InodeConflict(tbl, row) == \E x \in tbl : x.inode = row.inode

\* "... ON CONFLICT DO NOTHING": any uniqueness conflict skips the insert.
\* INSERT OR REPLACE: the rows in conflict with the new one are deleted.
InsertOrReplaceRoot(tbl, row) ==
    {x \in tbl : ~(x.inode = row.inode
                    \/ (x.parent_inode = row.parent_inode /\ x.name = row.name))}
        \cup {row}

InsertOrNothing(tbl, row) ==
    IF InodeConflict(tbl, row) \/ NamesConflict(tbl, row)
    THEN tbl
    ELSE tbl \cup {row}

\* The columns of the DO UPDATE SET list of the entries upsert.
\* The DO UPDATE SET list were without "size=excluded.size".
EntrySetColsNoSize(b) ==
    IF b = "pg_sqlite_fs"
    THEN {"name", "parent_inode", "decrypted_size", "ctime", "mtime", "nlink",
          "is_dir"}
    ELSE {"name", "parent_inode", "ctime", "mtime", "nlink", "is_dir"}

EntrySetCols(b) ==
    IF b = "pg_sqlite_fs"
    THEN {"name", "parent_inode", "decrypted_size",
          "ctime", "mtime", "nlink", "size", "is_dir"}
    ELSE {"name", "parent_inode", "ctime", "mtime", "nlink", "size", "is_dir"}

\* "INSERT INTO t(...) VALUES(...) ON CONFLICT(inode) DO UPDATE SET c =
\* excluded.c, ...": one sqlite3_step.  The upsert target is tested first; a
\* violation of any other uniqueness constraint aborts the statement.
\* Gives [ok, tbl, did]: ok = FALSE is SQLITE_CONSTRAINT and tbl is
\* unchanged; did tells whether the row was inserted or updated.
UpsertStep(tbl, row, setCols, indexes) ==
    IF InodeConflict(tbl, row)
    THEN LET old == CHOOSE x \in tbl : x.inode = row.inode
             new == [c \in DOMAIN old |->
                        IF c \in setCols THEN row[c] ELSE old[c]]
             rest == tbl \ {old}
         IN  IF UniqueConflict(rest, new, indexes)
             THEN [ok |-> FALSE, tbl |-> tbl, did |-> "update"]
             ELSE [ok |-> TRUE, tbl |-> rest \cup {new}, did |-> "update"]
    ELSE IF UniqueConflict(tbl, row, indexes)
         THEN [ok |-> FALSE, tbl |-> tbl, did |-> "insert"]
         ELSE [ok |-> TRUE, tbl |-> tbl \cup {row}, did |-> "insert"]

\* The statement were "INSERT OR REPLACE INTO entries ...": the rows in the
\* way are deleted.
InsertOrReplaceStmt(b, tbl, row) ==
    [ok |-> TRUE,
     tbl |-> {x \in tbl : ~(x.inode = row.inode
                            \/ UniqueConflict({x}, row, EntryIndexes))}
             \cup {row},
     did |-> IF InodeConflict(tbl, row) THEN "update" ELSE "insert"]

\* The statement were without its ON CONFLICT clause.
PlainInsertStmt(b, tbl, row) ==
    IF InodeConflict(tbl, row) \/ UniqueConflict(tbl, row, EntryIndexes)
    THEN [ok |-> FALSE, tbl |-> tbl, did |-> "insert"]
    ELSE [ok |-> TRUE, tbl |-> tbl \cup {row}, did |-> "insert"]

\* The statement stepped on a connection with "PRAGMA foreign_keys = ON":
\* "parent_inode REFERENCES entries(inode)" is enforced, and a row whose
\* parent_inode is the inode of no row of the table is SQLITE_CONSTRAINT.
InsertWithForeignKeys(b, tbl, row) ==
    LET r == UpsertStep(tbl, row, EntrySetCols(b), EntryIndexes)
    IN  IF r.ok /\ \A y \in r.tbl : y.inode # row.parent_inode
        THEN [ok |-> FALSE, tbl |-> tbl, did |-> r.did]
        ELSE r

\* The prepared statement of pg_sqlite_fs_insert_entry, stepped once.
InsertEntryStmt(b, tbl, row) ==
    UpsertStep(tbl, row, EntrySetCols(b), EntryIndexes)

\* "DELETE FROM entries WHERE inode = ?1 OR parent_inode = ?1"
\* sqlite3_exec of a caller-supplied text: the empty text, a statement on a
\* table of the schema, and a text that does not parse.
Statements == {"", "DELETE FROM files", "DELETE FROM"}

\* A statement that writes the attribute k of inode 2.
InsertAttribute ==
    "INSERT OR REPLACE INTO extended_attributes VALUES (2, 'k', 'v')"

\* Only pg_sqlite_fs_create of pg.c creates the table extended_attributes.
sqlite3_exec(b, st, sql) ==
    CASE sql = "" -> [ok |-> TRUE, st |-> st]
      [] sql = "DELETE FROM files" ->
            IF st.schema THEN [ok |-> TRUE, st |-> [st EXCEPT !.files = {}]]
            ELSE [ok |-> FALSE, st |-> st]
      [] sql = InsertAttribute ->
            IF st.schema /\ b = "pg"
            THEN [ok |-> TRUE,
                  st |-> [st EXCEPT !.attrs =
                            {x \in @ : ~(x.inode = 2 /\ x.name = "k")}
                            \cup {[inode |-> 2, name |-> "k", value |-> "v"]}]]
            ELSE [ok |-> FALSE, st |-> st]
      [] OTHER -> [ok |-> FALSE, st |-> st]

pg_sqlite_fs_exec(b, loc, st, path, sql) ==
    IF IsNull(path) \/ IsNull(sql) THEN Raise(st, "args")
    ELSE IF ~convert_and_check_path(b, loc, path[1])
    THEN Refuse(b, loc, path[1], st)
    ELSE IF ~CanOpen(path[1]) THEN Return(st, FALSE, "open")
    ELSE LET r == sqlite3_exec(b, sqlite3_open(st), sql[1])
         IN  IF r.ok THEN Return(r.st, TRUE, "done")
             ELSE Return(r.st, FALSE, "exec")

\* The recursive deletion the comment at the statement asks for: the
\* entries two levels below go as well.
DeleteTwoLevels(tbl, i) ==
    LET gone == {x \in tbl : x.inode = i \/ x.parent_inode = i}
    IN  {x \in tbl : x \notin gone /\ \A g \in gone : x.parent_inode # g.inode}

DeleteEntryStmt(tbl, i) ==
    {x \in tbl : ~(x.inode = i \/ x.parent_inode = i)}

\* "DELETE FROM files WHERE inode = ?"
DeleteFileStmt(tbl, i) == {x \in tbl : x.inode # i}

\* "DELETE FROM entries WHERE inode > 1"
TruncateEntriesStmt(tbl) == {x \in tbl : ~(x.inode > 1)}

\* A row of files: pg.c has seven columns, pg_sqlite_fs.c three.
FileRow(i, mnt, rp, h, ps, pre, app) ==
    [inode |-> i, mountpoint |-> mnt, rel_path |-> rp, header |-> h,
     payload_size |-> ps, prepend |-> pre, append |-> app]

FileRow3(i, p, h) == [inode |-> i, path |-> p, header |-> h]

FileSetCols(b) ==
    IF b = "pg_sqlite_fs"
    THEN {"path", "header"}
    ELSE {"mountpoint", "rel_path", "header", "payload_size", "prepend", "append"}

\* The prepared statement of pg_sqlite_fs_insert_file, stepped once.
InsertFileStmt(b, tbl, row) ==
    UpsertStep(tbl, row, FileSetCols(b), FileIndexes)

----------------------------------------------------------------------------
(* The exported functions working on one row or one table.  Each gives     *)
(* Out(store after the call, result, stage, txn, written).                 *)

pg_sqlite_fs_create(b, loc, st, path) ==
    IF ~convert_and_check_path(b, loc, path)
    THEN Refuse(b, loc, path, st)
    ELSE IF ~CanOpen(path) THEN Return(st, FALSE, "open")
    ELSE LET o == sqlite3_open(st)
         IN  Return([o EXCEPT !.schema = TRUE,
                              !.entries = InsertOrNothing(o.entries, RootEntry)],
                    TRUE, "done")

\* The result of unlink returned as it is: 0, read as false, on success.
RemoveReturnsUnlinkRc(b, loc, st, path) ==
    IF ~convert_and_check_path(b, loc, path)
    THEN Refuse(b, loc, path, st)
    ELSE IF CanOpen(path) /\ st.exists
         THEN Return(AbsentStore, FALSE, "done")
         ELSE Return(st, TRUE, "unlink")

pg_sqlite_fs_remove(b, loc, st, path) ==
    IF ~convert_and_check_path(b, loc, path)
    THEN Refuse(b, loc, path, st)
    ELSE IF CanOpen(path) /\ st.exists
         THEN Return(AbsentStore, TRUE, "done")
         ELSE Return(st, FALSE, "unlink")

\* a: [path, inode, name, parent_inode, decrypted_size, ctime, mtime, nlink,
\* size, is_dir, nargs]; path .. decrypted_size are Null or Some(value);
\* nargs is PG_NARGS(), 9 for a call with every argument (10 in
\* pg_sqlite_fs.c, which makes no difference to the test nargs < 4).

\* The same function with the tests of its arguments moved after
\* sqlite3_open.
InsertEntryOpensFirst(b, loc, st, a) ==
    IF IsNull(a.path) THEN Raise(st, "args")
    ELSE IF ~convert_and_check_path(b, loc, a.path[1])
    THEN Refuse(b, loc, a.path[1], st)
    ELSE IF ~CanOpen(a.path[1]) THEN Return(st, FALSE, "open")
    ELSE IF a.nargs < 4 THEN NoClose(Raise(sqlite3_open(st), "nargs"))
    ELSE IF IsNull(a.inode) \/ IsNull(a.name) \/ IsNull(a.parent_inode)
    THEN NoClose(Raise(sqlite3_open(st), "args"))
    ELSE LET o == sqlite3_open(st)
             row == Entry(a.inode[1], a.name[1], a.parent_inode[1],
                          IF b = "pg_sqlite_fs" THEN a.decrypted_size ELSE Null,
                          a.ctime, a.mtime, a.nlink, a.size,
                          IF a.is_dir THEN 1 ELSE 0)
             r == InsertEntryStmt(b, o.entries, row)
         IN  IF ~o.schema THEN Return(o, FALSE, "prepare")
             ELSE IF ~r.ok THEN Return(o, FALSE, "step")
             ELSE Return([o EXCEPT !.entries = r.tbl], TRUE, r.did)

pg_sqlite_fs_insert_entry(b, loc, st, a) ==
    IF a.nargs < 4 THEN Raise(st, "nargs")
    ELSE IF IsNull(a.path) \/ IsNull(a.inode) \/ IsNull(a.name)
            \/ IsNull(a.parent_inode)
    THEN Raise(st, "args")
    ELSE IF ~convert_and_check_path(b, loc, a.path[1])
    THEN Refuse(b, loc, a.path[1], st)
    ELSE IF ~CanOpen(a.path[1]) THEN Return(st, FALSE, "open")
    ELSE LET o == sqlite3_open(st)
             row == Entry(a.inode[1], a.name[1], a.parent_inode[1],
                          IF b = "pg_sqlite_fs" THEN a.decrypted_size ELSE Null,
                          a.ctime, a.mtime, a.nlink, a.size,
                          IF a.is_dir THEN 1 ELSE 0)
             r == InsertEntryStmt(b, o.entries, row)
         IN  IF ~o.schema THEN Return(o, FALSE, "prepare")
             ELSE IF ~r.ok THEN Return(o, FALSE, "step")
             ELSE Return([o EXCEPT !.entries = r.tbl], TRUE, r.did)

\* a: [path, inode, mountpoint, rel_path, header, payload_size, prepend,
\* append], each Null or Some(value); pg_sqlite_fs.c takes [path, inode,
\* rel_path, header].  The D1 line of pg.c evaluates VARSIZE_ANY_EXHDR of
\* mnt and rpath, NULL pointers for null arguments, when the message is
\* logged (dbg.log); the read ends the backend where dbg.trp.
pg_sqlite_fs_insert_file(b, loc, st, a, dbg) ==
    IF IsNull(a.path) \/ IsNull(a.inode)
       \/ (b = "pg_sqlite_fs" /\ (IsNull(a.rel_path) \/ IsNull(a.header)))
    THEN Raise(st, "args")
    ELSE IF ~convert_and_check_path(b, loc, a.path[1])
    THEN Refuse(b, loc, a.path[1], st)
    ELSE IF ~CanOpen(a.path[1]) THEN Return(st, FALSE, "open")
    ELSE LET o == sqlite3_open(st)
             row == IF b = "pg_sqlite_fs"
                    THEN FileRow3(a.inode[1], a.rel_path, a.header)
                    ELSE FileRow(a.inode[1], a.mountpoint, a.rel_path, a.header,
                                 IF IsNull(a.payload_size) THEN 0
                                 ELSE a.payload_size[1],
                                 a.prepend, a.append)
             r == InsertFileStmt(b, o.files, row)
         IN  IF b = "pg" /\ dbg.log /\ dbg.trp
                /\ (IsNull(a.mountpoint) \/ IsNull(a.rel_path))
             THEN Raise(o, "crash")
             ELSE IF ~o.schema THEN Return(o, FALSE, "prepare")
             ELSE IF ~r.ok THEN Return(o, FALSE, "step")
             ELSE Return([o EXCEPT !.files = r.tbl], TRUE, r.did)

\* sqlite3_open_v2(SQLITE_OPEN_READWRITE) does not create the file; a failed
\* prepare leaves stmt NULL and sqlite3_bind_int64 then fails.  The result
\* of sqlite3_step is overwritten by "rc = 0".
pg_sqlite_fs_delete_file(b, loc, st, path, i) ==
    IF ~convert_and_check_path(b, loc, path)
    THEN Refuse(b, loc, path, st)
    ELSE IF ~(CanOpen(path) /\ st.exists) THEN NoClose(Raise(st, "open"))
    ELSE IF ~st.schema THEN Return(st, FALSE, "bind")
    ELSE Return([st EXCEPT !.files = DeleteFileStmt(st.files, i)], TRUE, "done")

\* The function deleted the payload rows of the entries it deletes as
\* well.
DeleteEntryCascades(b, loc, st, path, i) ==
    IF ~convert_and_check_path(b, loc, path)
    THEN Refuse(b, loc, path, st)
    ELSE IF ~(CanOpen(path) /\ st.exists) THEN NoClose(Raise(st, "open"))
    ELSE IF ~st.schema THEN Return(st, FALSE, "bind")
    ELSE Return([st EXCEPT !.entries = DeleteEntryStmt(st.entries, i),
                           !.files = {x \in @ : x.inode # i}],
                TRUE, "done")

pg_sqlite_fs_delete_entry(b, loc, st, path, i) ==
    IF ~convert_and_check_path(b, loc, path)
    THEN Refuse(b, loc, path, st)
    ELSE IF ~(CanOpen(path) /\ st.exists) THEN NoClose(Raise(st, "open"))
    ELSE IF ~st.schema THEN Return(st, FALSE, "bind")
    ELSE Return([st EXCEPT !.entries = DeleteEntryStmt(st.entries, i)],
                TRUE, "done")

\* The statement text parses.  pg.c passes whole statements;
\* pg_sqlite_fs.c builds the text with asprintf("DELETE FROM %s%s", table,
\* where_clause) and passes "entries" with "WHERE inode > 1": the text
\* "DELETE FROM entriesWHERE inode > 1" is a syntax error.
TruncateSqlParses(b, table) == ~(b = "pg_sqlite_fs" /\ table = "entries")

\* pg_sqlite_fs_truncate_files passed the statement of
\* pg_sqlite_fs_truncate_attributes.
TruncateWrongTable(b, loc, st, path, table) ==
    IF ~convert_and_check_path(b, loc, path)
    THEN Refuse(b, loc, path, st)
    ELSE IF ~(CanOpen(path) /\ st.exists) THEN NoClose(Raise(st, "open"))
    ELSE IF ~st.schema THEN Return(st, FALSE, "exec")
    ELSE Return([st EXCEPT !.attrs = {}], TRUE, "done")

\* table: "entries", "files" or "extended_attributes"
pg_sqlite_fs_truncate_table(b, loc, st, path, table) ==
    IF ~convert_and_check_path(b, loc, path)
    THEN Refuse(b, loc, path, st)
    ELSE IF ~(CanOpen(path) /\ st.exists) THEN NoClose(Raise(st, "open"))
    ELSE IF ~TruncateSqlParses(b, table) THEN Return(st, FALSE, "exec")
    ELSE IF ~st.schema THEN Return(st, FALSE, "exec")
    ELSE Return(
           CASE table = "entries" ->
                  [st EXCEPT !.entries = TruncateEntriesStmt(st.entries)]
             [] table = "files" -> [st EXCEPT !.files = {}]
             [] OTHER -> [st EXCEPT !.attrs = {}],
           TRUE, "done")

----------------------------------------------------------------------------
(* The bulk loaders.  q is the outcome of SPI_execute on the caller's      *)
(* query: [select, types, rows]; select = FALSE when the return code is    *)
(* not SPI_OK_SELECT; types[p + 1] is TupleDescAttr(tupdesc, p)->atttypid, *)
(* Len(types) is natts; a row is a tuple of Null or Some(value).           *)

\* SPI_getbinval(row, tupdesc, k, &isnull): a column number beyond natts
\* gives isnull = true.
SPI_getbinval(q, row, k) == IF k > Len(q.types) THEN Null ELSE row[k]

\* SQLITE_FS_CHECK_TYPE(p, t, n) for p = 0 .. Len(expected) - 1.  A position
\* at or beyond natts reads past the attribute array: oob is what the
\* comparison of that garbage gives.
CheckTypes(q, expected, oob) ==
    \A p \in 1..Len(expected) :
        IF p <= Len(q.types) THEN q.types[p] = expected[p] ELSE oob

EntriesNatts == 9

EntriesTypes(b) ==
    IF b = "pg_sqlite_fs"
    THEN <<"INT8", "TEXT", "INT8", "TEXT", "INT8", "INT8", "INT4", "INT8", "BOOL">>
    ELSE <<"INT8", "TEXT", "INT8", "INT8", "INT8", "INT4", "INT8", "BOOL">>

\* The column numbers whose null aborts the load (goto bailout_spi).
EntriesRequired(b) ==
    IF b = "pg_sqlite_fs" THEN {1, 2, 3, 5, 6, 7, 8, 9} ELSE 1..8

\* The column numbers whose datum goes through DatumGetTextPP before isnull
\* is looked at: the datum of a null is a NULL pointer, which
\* pg_detoast_datum_packed reads through.
EntriesDetoasted(b) == IF b = "pg_sqlite_fs" THEN {2, 4} ELSE {2}

\* Reading the columns cols of one row in ascending order: "crash" at the
\* first null that is detoasted where trp, "null" at the first null that is
\* required, "ok" when all columns were read.
ReadRow(q, row, cols, required, detoasted, trp) ==
    LET bad == {k \in cols :
                  /\ IsNull(SPI_getbinval(q, row, k))
                  /\ (k \in required \/ (trp /\ k \in detoasted))}
        k == CHOOSE x \in bad : \A y \in bad : x <= y
    IN  IF bad = {} THEN "ok"
        ELSE IF trp /\ k \in detoasted THEN "crash"
        ELSE "null"

\* The values bound to the prepared statement for one row.
EntriesBind(b, q, row) ==
    IF b = "pg_sqlite_fs"
    THEN Entry(row[1][1], row[2][1], row[3][1], SPI_getbinval(q, row, 4),
               row[5][1], row[6][1], row[7][1], row[8][1],
               IF row[9][1] THEN 1 ELSE 0)
    ELSE Entry(row[1][1], row[2][1], row[3][1], Null,
               row[4][1], row[5][1], row[6][1], row[7][1],
               IF row[8][1] THEN 1 ELSE 0)

\* The columns whose parameter is bound from a value that may be null.
NullableParams == {"decrypted_size", "header", "prepend", "append"}

\* The binds of an iteration skipped a parameter whose value is null.
BindUnlessNull(prev, new, params) ==
    [c \in DOMAIN new |->
        IF c \in params /\ ~(c \in NullableParams /\ IsNull(new[c]))
        THEN new[c] ELSE prev[c]]

\* The parameters of the prepared statement after the sqlite3_bind_* calls
\* of one iteration.  sqlite3_reset keeps what was bound (prev); each bind,
\* sqlite3_bind_null included, replaces the value of its parameter by the
\* value of the row (new).
sqlite3_bind(prev, new, params) ==
    [c \in DOMAIN new |-> IF c \in params THEN new[c] ELSE prev[c]]

\* The columns bound in every iteration of pg_sqlite_fs_insert_entries: all
\* the parameters of the statement (pg.c has no decrypted_size).
EntriesParams(b) ==
    IF b = "pg_sqlite_fs" THEN EntryCols ELSE EntryCols \ {"decrypted_size"}

\* The parameters of the statement when row i is stepped: those of the
\* freshly prepared statement are NULL.
RECURSIVE EntriesBound(_, _, _)
EntriesBound(b, q, i) ==
    LET new == EntriesBind(b, q, q.rows[i])
    IN  sqlite3_bind(IF i = 1 THEN [c \in DOMAIN new |-> Null]
                     ELSE EntriesBound(b, q, i - 1),
                     new, EntriesParams(b))

\* The prepared statement of pg_sqlite_fs_insert_entries, stepped once.
InsertEntriesStmt(b, tbl, row) ==
    UpsertStep(tbl, row, EntrySetCols(b), EntryIndexes)

\* The for loop over SPI_processed rows, from row i on, inside the open
\* transaction: tbl is the table as the transaction sees it.  Gives the
\* table, the stage the loop ended at and the rows stepped successfully.
RECURSIVE EntriesLoop(_, _, _, _, _, _)
EntriesLoop(b, q, tbl, i, w, trp) ==
    IF i > Len(q.rows) THEN [tbl |-> tbl, stage |-> "done", written |-> w]
    ELSE LET row == q.rows[i]
             rd == ReadRow(q, row, 1..Len(EntriesTypes(b)), EntriesRequired(b),
                           EntriesDetoasted(b), trp)
             r == InsertEntriesStmt(b, tbl, EntriesBound(b, q, i))
         IN  IF rd # "ok" THEN [tbl |-> tbl, stage |-> rd, written |-> w]
             ELSE IF ~r.ok
             THEN [tbl |-> tbl, stage |-> "step", written |-> w]
             ELSE EntriesLoop(b, q, r.tbl, i + 1, w + 1, trp)

\* The backend process dies inside the open transaction: nothing returns,
\* and SQLite undoes the transaction from its journal at the next open.
Crash(st, w) == Out(st, "crash", "crash", "aborted", w)

\* The closing statement were "COMMIT;" whatever rc is.
CommitAnyway(before, after, rc, stg, w) ==
    Out(after, "true", stg, "commit", w)

\* "rc = sqlite3_exec(db, (rc) ? "ROLLBACK;" : "COMMIT;", ...)" followed by
\* "if (rc != SQLITE_OK) rc = 1; else rc = 0;" and PG_RETURN_BOOL(!rc):
\* rc is the outcome of closing the transaction, whichever way it is closed.
CloseTransaction(before, after, rc, stg, w) ==
    IF rc # 0
    THEN Out(before, "true", stg, "rollback", w)
    ELSE Out(after, "true", stg, "commit", w)

\* rc at the label bailout_spi once the loop is over: 0 after a last row
\* that was stepped, SPI_OK_SELECT when there was no row.
SPI_OK_SELECT == 5

\* rc = 1 at the top of each iteration, 3 after a failed step, 0 after a
\* stepped row.
LoopRc(q, l) ==
    CASE l.stage = "null" -> 1
      [] l.stage = "step" -> 3
      [] Len(q.rows) = 0 -> SPI_OK_SELECT
      [] OTHER -> 0

pg_sqlite_fs_insert_entries(b, loc, st, path, q, oob, trp) ==
    IF ~convert_and_check_path(b, loc, path)
    THEN Refuse(b, loc, path, st)
    ELSE IF ~CanOpen(path) THEN NoClose(Return(st, FALSE, "open"))
    ELSE LET o == sqlite3_open(st)
             l == EntriesLoop(b, q, o.entries, 1, 0, trp)
             rc == LoopRc(q, l)
         IN  IF ~o.schema THEN CloseTransaction(o, o, 1, "prepare", 0)
             ELSE IF ~q.select THEN CloseTransaction(o, o, 2, "execute", 0)
             ELSE IF Len(q.types) # EntriesNatts
             THEN CloseTransaction(o, o, 3, "natts", 0)
             ELSE IF ~CheckTypes(q, EntriesTypes(b), oob)
             THEN CloseTransaction(o, o, 4, "type", 0)
             ELSE IF l.stage = "crash" THEN Crash(o, l.written)
             ELSE CloseTransaction(o, [o EXCEPT !.entries = l.tbl], rc,
                                   l.stage, l.written)

FilesNatts(b) == IF b = "pg_sqlite_fs" THEN 3 ELSE 4

FilesTypes(b) ==
    IF b = "pg_sqlite_fs"
    THEN <<"INT8", "TEXT", "BYTEA">>
    ELSE <<"INT8", "TEXT", "TEXT", "BYTEA", "INT8", "BYTEA", "BYTEA">>

FilesRequired(b) == {1, 2, 3}

\* The column numbers read with DatumGetTextPP or DatumGetByteaP.
FilesDetoasted(b) == IF b = "pg_sqlite_fs" THEN {2, 3} ELSE {2, 3, 4, 6, 7}

FilesBind(b, q, row) ==
    IF b = "pg_sqlite_fs"
    THEN FileRow3(row[1][1], row[2], row[3])
    ELSE FileRow(row[1][1], row[2], row[3], SPI_getbinval(q, row, 4),
                 IF IsNull(SPI_getbinval(q, row, 5)) THEN 0
                 ELSE SPI_getbinval(q, row, 5)[1],
                 SPI_getbinval(q, row, 6), SPI_getbinval(q, row, 7))

\* The parameters of the statement of pg_sqlite_fs_insert_files when row i
\* is stepped: every iteration binds every parameter.
RECURSIVE FilesBound(_, _, _)
FilesBound(b, q, i) ==
    LET new == FilesBind(b, q, q.rows[i])
    IN  sqlite3_bind(IF i = 1 THEN [c \in DOMAIN new |-> Null]
                     ELSE FilesBound(b, q, i - 1),
                     new, DOMAIN new)

\* The prepared statement of pg_sqlite_fs_insert_files, stepped once.
InsertFilesStmt(b, tbl, row) ==
    UpsertStep(tbl, row, FileSetCols(b), FileIndexes)

RECURSIVE FilesLoop(_, _, _, _, _, _)
FilesLoop(b, q, tbl, i, w, trp) ==
    IF i > Len(q.rows) THEN [tbl |-> tbl, stage |-> "done", written |-> w]
    ELSE LET row == q.rows[i]
             rd == ReadRow(q, row, 1..Len(FilesTypes(b)), FilesRequired(b),
                           FilesDetoasted(b), trp)
             r == InsertFilesStmt(b, tbl, FilesBound(b, q, i))
         IN  IF rd # "ok" THEN [tbl |-> tbl, stage |-> rd, written |-> w]
             ELSE IF ~r.ok
             THEN [tbl |-> tbl, stage |-> "step", written |-> w]
             ELSE FilesLoop(b, q, r.tbl, i + 1, w + 1, trp)

pg_sqlite_fs_insert_files(b, loc, st, path, q, oob, trp) ==
    IF ~convert_and_check_path(b, loc, path)
    THEN Refuse(b, loc, path, st)
    ELSE IF ~CanOpen(path) THEN NoClose(Return(st, FALSE, "open"))
    ELSE LET o == sqlite3_open(st)
             l == FilesLoop(b, q, o.files, 1, 0, trp)
             rc == LoopRc(q, l)
         IN  IF ~o.schema THEN CloseTransaction(o, o, 1, "prepare", 0)
             ELSE IF ~q.select THEN CloseTransaction(o, o, 2, "execute", 0)
             ELSE IF Len(q.types) # FilesNatts(b)
             THEN CloseTransaction(o, o, 3, "natts", 0)
             ELSE IF ~CheckTypes(q, FilesTypes(b), oob)
             THEN CloseTransaction(o, o, 4, "type", 0)
             ELSE IF l.stage = "crash" THEN Crash(o, l.written)
             ELSE CloseTransaction(o, [o EXCEPT !.files = l.tbl], rc,
                                   l.stage, l.written)

----------------------------------------------------------------------------
(* Inputs *)

\* The values given to the columns that are neither key nor name: the
\* column defaults, and one set of other values.
Payloads(b) ==
    {[decrypted_size |-> Null, ctime |-> 0, mtime |-> 0, nlink |-> 1,
      size |-> 0, is_dir |-> TRUE],
     [decrypted_size |-> IF b = "pg_sqlite_fs" THEN Some("5") ELSE Null,
      ctime |-> 7, mtime |-> 8, nlink |-> 2, size |-> 5, is_dir |-> FALSE]}

EntryArg(p, i, n, pi, pl) ==
    [path |-> p, inode |-> i, name |-> n, parent_inode |-> pi,
     decrypted_size |-> pl.decrypted_size, ctime |-> pl.ctime,
     mtime |-> pl.mtime, nlink |-> pl.nlink, size |-> pl.size,
     is_dir |-> pl.is_dir, nargs |-> 9]

\* The call made through a declaration of the function with 3 arguments.
FewArgs(a) == [a EXCEPT !.nargs = 3]

\* Well-formed calls of pg_sqlite_fs_insert_entry on the store, with the
\* parent among parents and the other columns among payloads.
EntryArgs(parents, payloads) ==
    {EntryArg(Some(StorePath), Some(i), Some(n), Some(pi), pl) :
        i \in Inodes, n \in Names, pi \in parents, pl \in payloads}

Defaults(b) == {x \in Payloads(b) : x.size = 0}

\* inode is an int64: values on both sides of the bound of "inode > 1".
WideInodes == {-1, 0, 1, 2}

\* Well-formed calls with the inode among WideInodes.
WideEntryArgs(parents, payloads) ==
    {EntryArg(Some(StorePath), Some(i), Some(n), Some(pi), pl) :
        i \in WideInodes, n \in Names, pi \in parents, pl \in payloads}

\* Calls with a null argument or a path that is refused.
BadEntryArgs(b) ==
    LET pl == CHOOSE x \in Payloads(b) : x.size = 0
    IN  {EntryArg(Null, Some(2), Some("a"), Some(1), pl),
         EntryArg(Some(StorePath), Null, Some("a"), Some(1), pl),
         EntryArg(Some(StorePath), Some(2), Null, Some(1), pl),
         EntryArg(Some(StorePath), Some(2), Some("a"), Null, pl),
         EntryArg(Some(OutsidePath), Some(2), Some("a"), Some(1), pl),
         EntryArg(Some(RelativePath), Some(2), Some("a"), Some(1), pl),
         EntryArg(Some(MissingDirPath), Some(2), Some("a"), Some(1), pl),
         FewArgs(EntryArg(Some(StorePath), Some(2), Some("a"), Null, pl))}

FileInodes == {2}
Headers == {Null, Some("h")}

FileArg(p, i, mnt, rp, h, ps, pre, app) ==
    [path |-> p, inode |-> i, mountpoint |-> mnt, rel_path |-> rp,
     header |-> h, payload_size |-> ps, prepend |-> pre, append |-> app]

\* Calls of pg_sqlite_fs_insert_file on the store; pg_sqlite_fs.c raises
\* on a null header.
FileArgs(b) ==
    {FileArg(Some(p), Some(i), IF b = "pg" THEN Some("m") ELSE Null,
             Some("p"), h, Null, Null, Null) :
        p \in {StorePath, MissingDirPath}, i \in FileInodes, h \in Headers}

\* The same calls over two inodes, so that a store can hold a payload row
\* beside the one an operation is about.
WideFileInodes == {2, 3}

WideFileArgs(b) ==
    {FileArg(Some(StorePath), Some(i), IF b = "pg" THEN Some("m") ELSE Null,
             Some("p"), h, Null, Null, Null) :
        i \in WideFileInodes, h \in Headers}

\* Rows of a query for pg_sqlite_fs_insert_entries, in the column order the
\* variant reads; pg.c wants a ninth column and never reads it.
EntryRow(b, i, n, pi, pl) ==
    IF b = "pg_sqlite_fs"
    THEN <<i, n, pi, pl.decrypted_size, Some(pl.ctime), Some(pl.mtime),
           Some(pl.nlink), Some(pl.size), Some(pl.is_dir)>>
    ELSE <<i, n, pi, Some(pl.ctime), Some(pl.mtime), Some(pl.nlink),
           Some(pl.size), Some(pl.is_dir), Null>>

\* The rows the queries are made of: two that want the same name under the
\* root and one with a null inode; for n = 2 also one that moves inode 2
\* below itself with the column defaults.
EntryRows(b, n) ==
    LET p0 == CHOOSE x \in Payloads(b) : x.size = 0
        p5 == CHOOSE x \in Payloads(b) : x.size = 5
    IN  {EntryRow(b, Some(2), Some("a"), Some(1), p5),
         EntryRow(b, Some(3), Some("a"), Some(1), p5),
         EntryRow(b, Null, Some("a"), Some(1), p5)}
        \cup (IF n = 1 THEN {}
              ELSE {EntryRow(b, Some(2), Some("a"), Some(2), p0)})

FileQueryRow(b, i, h) ==
    IF b = "pg_sqlite_fs"
    THEN <<i, Some("p"), h>>
    ELSE <<i, Some("m"), Some("p"), h>>

FileRows(b) ==
    {FileQueryRow(b, Some(2), Some("h")),
     FileQueryRow(b, Some(2), Null),
     FileQueryRow(b, Null, Some("h"))}

SeqsUpTo(S, n) == UNION {[1..k -> S] : k \in 0..n}

Query(sel, types, rows) == [select |-> sel, types |-> types, rows |-> rows]

\* Backend processes calling the functions on the same store file, and the
\* record of a process that is in no bulk load.
Callers == {1, 2}

Idle ==
    [pc |-> "idle", q |-> Query(FALSE, <<>>, <<>>), oob |-> FALSE, i |-> 0,
     view |-> {}, w |-> 0]

\* The shape the variant accepts for each loader.
EntriesShape(b) ==
    IF b = "pg_sqlite_fs" THEN EntriesTypes(b) ELSE EntriesTypes(b) \o <<"BOOL">>

FilesShape(b) == SubSeq(FilesTypes(b), 1, FilesNatts(b))

\* Shapes that differ from the accepted one: a column less, a column of
\* another type.
DropLast(s) == SubSeq(s, 1, Len(s) - 1)

WrongType(s) == [s EXCEPT ![1] = "INT4"]

\* Queries: every row sequence in the accepted shape, a row under each
\* refused shape, and a statement that is not a SELECT.
Queries(shape, rowset) ==
    {Query(TRUE, shape, rs) : rs \in SeqsUpTo(rowset, MaxRows)}
    \cup {Query(TRUE, WrongType(shape), rs) : rs \in SeqsUpTo(rowset, 1)}
    \cup {Query(TRUE, DropLast(shape), [k \in 1..Len(rs) |-> DropLast(rs[k])]) :
            rs \in SeqsUpTo(rowset, 1)}
    \cup {Query(FALSE, shape, <<>>)}

EntryQueries(b, n) == Queries(EntriesShape(b), EntryRows(b, n))

FileQueries(b) == Queries(FilesShape(b), FileRows(b))

\* What the type test reads past the attribute array, where it does so.
Garbage(q, expected) == IF Len(expected) > Len(q.types) THEN BOOLEAN ELSE {FALSE}

\* A call of a loader: the path, the query and the garbage.  The refused
\* paths go with one query.
Loads(queries, expected) ==
    UNION {{[path |-> StorePath, q |-> q, oob |-> g] : g \in Garbage(q, expected)} :
             q \in queries}
    \cup {[path |-> p, q |-> Query(FALSE, expected, <<>>), oob |-> FALSE] :
            p \in Paths \ {StorePath}}

\* The input sets of each variant.
EntryLoadsPg1 == Loads(EntryQueries("pg", 1), EntriesTypes("pg"))
EntryLoadsFs1 ==
    Loads(EntryQueries("pg_sqlite_fs", 1), EntriesTypes("pg_sqlite_fs"))
EntryLoadsPg2 == Loads(EntryQueries("pg", 2), EntriesTypes("pg"))
EntryLoadsFs2 ==
    Loads(EntryQueries("pg_sqlite_fs", 2), EntriesTypes("pg_sqlite_fs"))

\* The calls of pg_sqlite_fs_insert_entries: n = 1 without, n = 2 with the
\* row that moves an inode.
EntryLoads(b, n) ==
    IF n = 1
    THEN (IF b = "pg" THEN EntryLoadsPg1 ELSE EntryLoadsFs1)
    ELSE (IF b = "pg" THEN EntryLoadsPg2 ELSE EntryLoadsFs2)

FileLoadsPg == Loads(FileQueries("pg"), FilesTypes("pg"))
FileLoadsFs == Loads(FileQueries("pg_sqlite_fs"), FilesTypes("pg_sqlite_fs"))
FileLoads(b) == IF b = "pg" THEN FileLoadsPg ELSE FileLoadsFs

EntryCallsPg1 == EntryArgs({1}, Defaults("pg")) \cup BadEntryArgs("pg")
EntryCallsFs1 ==
    EntryArgs({1}, Defaults("pg_sqlite_fs")) \cup BadEntryArgs("pg_sqlite_fs")
EntryCallsPg2 == EntryArgs({1, 2}, Defaults("pg")) \cup BadEntryArgs("pg")
EntryCallsFs2 ==
    EntryArgs({1, 2}, Defaults("pg_sqlite_fs")) \cup BadEntryArgs("pg_sqlite_fs")
EntryCallsPg3 == EntryArgs({1, 2}, Payloads("pg")) \cup BadEntryArgs("pg")
EntryCallsFs3 ==
    EntryArgs({1, 2}, Payloads("pg_sqlite_fs")) \cup BadEntryArgs("pg_sqlite_fs")

EntryCallsPg4 == WideEntryArgs({1, 2}, Defaults("pg"))
EntryCallsFs4 == WideEntryArgs({1, 2}, Defaults("pg_sqlite_fs"))

\* The calls of pg_sqlite_fs_insert_entry: n = 1 hangs every entry below the
\* root with the column defaults, n = 2 has two parents, n = 3 two parents
\* and every payload, n = 4 two parents and the inodes of WideInodes.
EntryCalls(b, n) ==
    CASE n = 1 -> (IF b = "pg" THEN EntryCallsPg1 ELSE EntryCallsFs1)
      [] n = 2 -> (IF b = "pg" THEN EntryCallsPg2 ELSE EntryCallsFs2)
      [] n = 4 -> (IF b = "pg" THEN EntryCallsPg4 ELSE EntryCallsFs4)
      [] OTHER -> (IF b = "pg" THEN EntryCallsPg3 ELSE EntryCallsFs3)

FileCallsPg == FileArgs("pg")
FileCallsFs == FileArgs("pg_sqlite_fs")
FileCallsPg2 == WideFileArgs("pg")
FileCallsFs2 == WideFileArgs("pg_sqlite_fs")
FileCalls(b, n) ==
    CASE n = 1 -> IF b = "pg" THEN FileCallsPg ELSE FileCallsFs
      [] OTHER -> IF b = "pg" THEN FileCallsPg2 ELSE FileCallsFs2

----------------------------------------------------------------------------
(* Actions: one per exported function *)

Outcome(name, o) ==
    /\ op' = name
    /\ result' = o.res
    /\ stage' = o.stage
    /\ txn' = o.txn
    /\ written' = o.written
    /\ changed' = (o.st # Cur)
    /\ db' = o.db
    /\ exists' = o.st.exists
    /\ schema' = o.st.schema
    /\ entries' = o.st.entries
    /\ files' = o.st.files
    /\ attrs' = o.st.attrs
    /\ UNCHANGED <<traps, nullread, build, location>>

\* A call made while no other process is in a call.
Apply(name, o) ==
    /\ Outcome(name, o)
    /\ UNCHANGED <<callers, reserved, serial>>

createStore ==
    \E p \in Paths : Apply("createStore", pg_sqlite_fs_create(build, location, Cur, p))

destroyStore ==
    \E p \in Paths : Apply("destroyStore", pg_sqlite_fs_remove(build, location, Cur, p))

upsertEntry(n) ==
    \E a \in EntryCalls(build, n) :
        Apply("upsertEntry", pg_sqlite_fs_insert_entry(build, location, Cur, a))

upsertFile(n) ==
    \E a \in FileCalls(build, n), log \in BOOLEAN :
        Apply("upsertFile",
              pg_sqlite_fs_insert_file(build, location, Cur, a,
                                       [log |-> log, trp |-> traps]))

deleteFile(n) ==
    \E p \in Paths, i \in IF n = 1 THEN FileInodes ELSE WideFileInodes :
        Apply("deleteFile", pg_sqlite_fs_delete_file(build, location, Cur, p, i))

deleteEntrySubtree ==
    \E p \in Paths, i \in Inodes :
        Apply("deleteEntrySubtree",
              pg_sqlite_fs_delete_entry(build, location, Cur, p, i))

truncateEntries ==
    \E p \in Paths :
        Apply("truncateEntries",
              pg_sqlite_fs_truncate_table(build, location, Cur, p, "entries"))

truncateFiles ==
    \E p \in Paths :
        Apply("truncateFiles",
              pg_sqlite_fs_truncate_table(build, location, Cur, p, "files"))

\* pg_sqlite_fs.c has no pg_sqlite_fs_truncate_attributes.
truncateAttributes ==
    /\ build = "pg"
    /\ \E p \in Paths :
        Apply("truncateAttributes",
              pg_sqlite_fs_truncate_table(build, location, Cur, p,
                                          "extended_attributes"))

bulkLoadEntries(n) ==
    \E c \in EntryLoads(build, n) :
        Apply("bulkLoadEntries",
              pg_sqlite_fs_insert_entries(build, location, Cur, c.path, c.q, c.oob,
                                          traps))

bulkLoadFiles ==
    \E c \in FileLoads(build) :
        Apply("bulkLoadFiles",
              pg_sqlite_fs_insert_files(build, location, Cur, c.path, c.q, c.oob,
                                        traps))

rawExec ==
    \E p \in {Null, Some(StorePath), Some(MissingDirPath)},
       sql \in {Null} \cup {Some(t) : t \in Statements} :
        Apply("rawExec", pg_sqlite_fs_exec(build, location, Cur, p, sql))

Init ==
    /\ traps \in BOOLEAN
    /\ build \in Builds
    /\ location \in {Null, Some(RootDir)}
    /\ nullread \in IF IsNull(location) /\ build = "pg_sqlite_fs" /\ ~traps
                    THEN BOOLEAN ELSE {FALSE}
    /\ exists = FALSE
    /\ schema = FALSE
    /\ entries = {}
    /\ files = {}
    /\ attrs = {}
    /\ op = "init"
    /\ result = "true"
    /\ stage = "done"
    /\ txn = "none"
    /\ written = 0
    /\ changed = FALSE
    /\ db = "closed"
    /\ callers = [c \in Callers |-> Idle]
    /\ reserved = 0
    /\ serial = {}

\* Every exported function, on a tree whose single-row upserts all hang
\* entries below the root.
Next ==
    \/ createStore
    \/ destroyStore
    \/ upsertEntry(1)
    \/ upsertFile(1)
    \/ deleteFile(1)
    \/ deleteEntrySubtree
    \/ truncateEntries
    \/ truncateFiles
    \/ truncateAttributes
    \/ bulkLoadEntries(1)
    \/ bulkLoadFiles

Spec == Init /\ [][Next]_vars

\* The functions that write table entries, on a tree with two parents.
NextTree ==
    \/ createStore
    \/ destroyStore
    \/ upsertEntry(2)
    \/ deleteEntrySubtree
    \/ truncateEntries
    \/ bulkLoadEntries(2)

SpecTree == Init /\ [][NextTree]_vars

\* Upserts of entries whose inode is any int64, and truncation.
NextKeys ==
    \/ createStore
    \/ destroyStore
    \/ upsertEntry(4)
    \/ truncateEntries

SpecKeys == Init /\ [][NextKeys]_vars

\* The functions that write table files one row at a time, over two inodes.
NextFiles ==
    \/ createStore
    \/ destroyStore
    \/ upsertFile(2)
    \/ deleteFile(2)
    \/ truncateFiles

SpecFiles == Init /\ [][NextFiles]_vars

\* Every function of the module, pg_sqlite_fs_exec included.
NextAll ==
    \/ Next
    \/ rawExec

SpecAll == Init /\ [][NextAll]_vars

\* pg_sqlite_fs_exec called with a statement that writes an attribute.
rawSetAttribute ==
    \E p \in {Some(StorePath)} :
        Apply("rawExec",
              pg_sqlite_fs_exec(build, location, Cur, p, Some(InsertAttribute)))

\* Every exported function on stores that hold attributes.
NextFrame == Next \/ rawSetAttribute

SpecFrame == Init /\ [][NextFrame]_vars

----------------------------------------------------------------------------
(* Calls of several backend processes on one store file.  A bulk load is
   taken statement by statement: BEGIN TRANSACTION, the query and its
   checks, one sqlite3_step per row, COMMIT or ROLLBACK.  Its rows are
   written to the pages of its own connection and reach the file at COMMIT;
   the first of them takes the write lock of the file. *)

\* A store file without locking: a statement never meets SQLITE_BUSY.
NoFileLock(holder, c) == FALSE

\* sqlite3_step of a writing statement of process c while another process
\* holds the write lock: SQLITE_BUSY at once, no busy handler being set.
sqlite3_busy(holder, c) == holder \notin {0, c}

ConcRow(b, k) ==
    LET p0 == CHOOSE x \in Payloads(b) : x.size = 0
        p5 == CHOOSE x \in Payloads(b) : x.size = 5
    IN  CASE k = 1 -> EntryRow(b, Some(2), Some("a"), Some(1), p5)
          [] k = 2 -> EntryRow(b, Some(3), Some("a"), Some(1), p5)
          [] k = 3 -> EntryRow(b, Some(2), Some("a"), Some(2), p0)
          [] OTHER -> EntryRow(b, Null, Some("a"), Some(1), p5)

\* The queries of the concurrent loads: one row, two rows that go together,
\* two rows of which the second is refused, a row with a null inode after a
\* good one, no row, and a result of the wrong type.
ConcQueries(b) ==
    {Query(TRUE, EntriesShape(b), [k \in 1..Len(ks) |-> ConcRow(b, ks[k])]) :
        ks \in {<<1>>, <<2>>, <<3, 2>>, <<1, 2>>, <<2, 4>>, <<>>}}
    \cup {Query(TRUE, WrongType(EntriesShape(b)), <<>>)}

ConcQueriesPg == ConcQueries("pg")
ConcQueriesFs == ConcQueries("pg_sqlite_fs")

ConcEntryArgs(b) ==
    {EntryArg(Some(StorePath), Some(i), Some("a"), Some(1), pl) :
        i \in {2, 3}, pl \in Defaults(b)}

ConcEntryArgsPg == ConcEntryArgs("pg")
ConcEntryArgsFs == ConcEntryArgs("pg_sqlite_fs")

SerialStore == [Cur EXCEPT !.entries = serial]

\* The end of a call of process c: it is in no bulk load any more.
Conclude(name, c, o, holder, ser) ==
    /\ Outcome(name, o)
    /\ callers' = [callers EXCEPT ![c] = Idle]
    /\ reserved' = holder
    /\ serial' = ser

Release(c) == IF reserved = c THEN 0 ELSE reserved

\* pg_sqlite_fs_insert_entries up to its row loop.
loadBegin(c) ==
    /\ callers[c].pc = "idle"
    /\ \E q \in (IF build = "pg" THEN ConcQueriesPg ELSE ConcQueriesFs) :
         \E g \in Garbage(q, EntriesTypes(build)) :
            IF ~schema
            THEN Conclude("bulkLoadEntries", c,
                          CloseTransaction(Cur, Cur, 1, "prepare", 0),
                          reserved, serial)
            ELSE IF Len(q.types) # EntriesNatts
            THEN Conclude("bulkLoadEntries", c,
                          CloseTransaction(Cur, Cur, 3, "natts", 0),
                          reserved, serial)
            ELSE IF ~CheckTypes(q, EntriesTypes(build), g)
            THEN Conclude("bulkLoadEntries", c,
                          CloseTransaction(Cur, Cur, 4, "type", 0),
                          reserved, serial)
            ELSE /\ callers' = [callers EXCEPT ![c] =
                        [pc |-> "rows", q |-> q, oob |-> g, i |-> 1,
                         view |-> {}, w |-> 0]]
                 /\ UNCHANGED <<traps, nullread, build, location, exists, schema, entries,
                                files, attrs, op, result, stage, txn, written,
                                changed, db, reserved, serial>>

\* One turn of the row loop of pg_sqlite_fs_insert_entries.
loadRow(c) ==
    LET s == callers[c]
        row == s.q.rows[s.i]
        rd == ReadRow(s.q, row, 1..Len(EntriesTypes(build)),
                      EntriesRequired(build), EntriesDetoasted(build), traps)
        tbl == IF reserved = c THEN s.view ELSE entries
        r == InsertEntriesStmt(build, tbl, EntriesBound(build, s.q, s.i))
    IN  /\ s.pc = "rows"
        /\ s.i <= Len(s.q.rows)
        /\ IF rd = "crash"
           THEN Conclude("bulkLoadEntries", c, Crash(Cur, s.w), Release(c), serial)
           ELSE IF rd = "null"
           THEN Conclude("bulkLoadEntries", c,
                         CloseTransaction(Cur, Cur, 1, "null", s.w),
                         Release(c), serial)
           ELSE IF sqlite3_busy(reserved, c)
           THEN Conclude("bulkLoadEntries", c,
                         CloseTransaction(Cur, Cur, 3, "busy", s.w),
                         Release(c), serial)
           ELSE IF ~r.ok
           THEN Conclude("bulkLoadEntries", c,
                         CloseTransaction(Cur, Cur, 3, "step", s.w),
                         Release(c), serial)
           ELSE /\ callers' = [callers EXCEPT ![c] =
                       [s EXCEPT !.i = s.i + 1, !.view = r.tbl, !.w = s.w + 1]]
                /\ reserved' = c
                /\ UNCHANGED <<traps, nullread, build, location, exists, schema, entries,
                               files, attrs, op, result, stage, txn, written,
                               changed, db, serial>>

\* The end of the row loop: COMMIT or ROLLBACK, sqlite3_close.
loadEnd(c) ==
    LET s == callers[c]
        rc == IF Len(s.q.rows) = 0 THEN SPI_OK_SELECT ELSE 0
        seq == pg_sqlite_fs_insert_entries(build, location, SerialStore,
                                           StorePath, s.q, s.oob, traps)
    IN  /\ s.pc = "rows"
        /\ s.i > Len(s.q.rows)
        /\ IF rc # 0
           THEN Conclude("bulkLoadEntries", c,
                         CloseTransaction(Cur, Cur, rc, "done", s.w),
                         Release(c), serial)
           ELSE Conclude("bulkLoadEntries", c,
                         CloseTransaction(Cur, [Cur EXCEPT !.entries = s.view],
                                          0, "done", s.w),
                         Release(c), seq.st.entries)

\* A single-statement call of process c: its statement meets SQLITE_BUSY
\* when another process holds the write lock, and is then not retried.
concUpsertEntry(c) ==
    /\ callers[c].pc = "idle"
    /\ \E a \in (IF build = "pg" THEN ConcEntryArgsPg ELSE ConcEntryArgsFs) :
          IF sqlite3_busy(reserved, c)
          THEN Conclude("upsertEntry", c, Return(Cur, FALSE, "busy"),
                        reserved, serial)
          ELSE Conclude("upsertEntry", c,
                        pg_sqlite_fs_insert_entry(build, location, Cur, a),
                        reserved,
                        pg_sqlite_fs_insert_entry(build, location, SerialStore,
                                                  a).st.entries)

concDeleteEntrySubtree(c) ==
    /\ callers[c].pc = "idle"
    /\ \E i \in {2} :
          IF sqlite3_busy(reserved, c)
          THEN Conclude("deleteEntrySubtree", c, Return(Cur, FALSE, "busy"),
                        reserved, serial)
          ELSE Conclude("deleteEntrySubtree", c,
                        pg_sqlite_fs_delete_entry(build, location, Cur,
                                                  StorePath, i),
                        reserved,
                        pg_sqlite_fs_delete_entry(build, location, SerialStore,
                                                  StorePath, i).st.entries)

concTruncateEntries(c) ==
    /\ callers[c].pc = "idle"
    /\ IF sqlite3_busy(reserved, c)
       THEN Conclude("truncateEntries", c, Return(Cur, FALSE, "busy"),
                     reserved, serial)
       ELSE Conclude("truncateEntries", c,
                     pg_sqlite_fs_truncate_table(build, location, Cur,
                                                 StorePath, "entries"),
                     reserved,
                     pg_sqlite_fs_truncate_table(build, location, SerialStore,
                                                 StorePath, "entries").st.entries)

\* The store after pg_sqlite_fs_create, no process in a call.
InitConc ==
    /\ traps \in BOOLEAN
    /\ nullread = FALSE
    /\ build \in Builds
    /\ location = Some(RootDir)
    /\ exists = TRUE
    /\ schema = TRUE
    /\ entries = {RootEntry}
    /\ files = {}
    /\ attrs = {}
    /\ op = "createStore"
    /\ result = "true"
    /\ stage = "done"
    /\ txn = "none"
    /\ written = 0
    /\ changed = TRUE
    /\ db = "closed"
    /\ callers = [c \in Callers |-> Idle]
    /\ reserved = 0
    /\ serial = {RootEntry}

NextConc ==
    \E c \in Callers :
        \/ loadBegin(c)
        \/ loadRow(c)
        \/ loadEnd(c)
        \/ concUpsertEntry(c)
        \/ concDeleteEntrySubtree(c)
        \/ concTruncateEntries(c)

SpecConc == InitConc /\ [][NextConc]_vars

\* pg_sqlite_fs_delete_file after "rc = sqlite3_step(stmt)": "if (rc !=
\* SQLITE_DONE) { ...; rc = 1; }" is followed by "rc = 0; // success", so
\* the rc that PG_RETURN_BOOL tests is 0 whether the step was done or not.
DeleteFileRc(done) == LET rc == IF done THEN 0 ELSE 1 IN 0

\* pg_sqlite_fs_delete_file called while another process may be in a bulk
\* load: the step of the DELETE needs the write lock of the file and is
\* SQLITE_BUSY while another connection holds it.
concDeleteFile(c) ==
    /\ callers[c].pc = "idle"
    /\ \E i \in FileInodes :
          IF sqlite3_busy(reserved, c)
          THEN Conclude("deleteFile", c,
                        Return(Cur, DeleteFileRc(FALSE) = 0, "busy"),
                        reserved, serial)
          ELSE Conclude("deleteFile", c,
                        pg_sqlite_fs_delete_file(build, location, Cur,
                                                 StorePath, i),
                        reserved, serial)

\* A created store that holds one payload row, no process in a call.
InitLock ==
    /\ traps \in BOOLEAN
    /\ nullread = FALSE
    /\ build \in Builds
    /\ location = Some(RootDir)
    /\ exists = TRUE
    /\ schema = TRUE
    /\ entries = {RootEntry}
    /\ files \in {{FilesBind(build, Query(TRUE, FilesShape(build), <<>>),
                             FileQueryRow(build, Some(i), Some("h")))} :
                     i \in FileInodes}
    /\ attrs = {}
    /\ op = "bulkLoadFiles"
    /\ result = "true"
    /\ stage = "done"
    /\ txn = "commit"
    /\ written = 1
    /\ changed = TRUE
    /\ db = "closed"
    /\ callers = [c \in Callers |-> Idle]
    /\ reserved = 0
    /\ serial = {RootEntry}

NextLock ==
    \E c \in Callers :
        \/ loadBegin(c)
        \/ loadRow(c)
        \/ loadEnd(c)
        \/ concDeleteFile(c)

SpecLock == InitLock /\ [][NextLock]_vars

----------------------------------------------------------------------------
(* The configuration variable sqlite_fs.location and its check hook *)

\* DataDir of the hosting server, and a file inside it.
DataDir == [abs |-> TRUE, parts |-> <<"pg", "data">>]
DataDirPath == [abs |-> TRUE, parts |-> <<"pg", "data", "db">>]

\* The source of a new value: the boot value of DefineCustomStringVariable,
\* postgresql.conf, a SET command.
GucSources == {"PGC_S_DEFAULT", "PGC_S_FILE", "PGC_S_SESSION"}

\* The values the variable is given: no value, "", "fs/db", "/", "/fs",
\* "/pg", "/pg/data", "/pg/data/fs" and "/pg/./data/fs".
EmptyString == [abs |-> FALSE, parts |-> <<>>]
NewValues ==
    {Null, Some(EmptyString), Some(RelativePath),
     Some([abs |-> TRUE, parts |-> <<>>]),
     Some(RootDir),
     Some([abs |-> TRUE, parts |-> <<"pg">>]),
     Some(DataDir),
     Some([abs |-> TRUE, parts |-> <<"pg", "data", "fs">>]),
     Some([abs |-> TRUE, parts |-> <<"pg", ".", "data", "fs">>])}

\* canonicalize_path drops the "." components.
canonicalize_path(p) ==
    [p EXCEPT !.parts = SelectSeq(p.parts, LAMBDA x : x # ".")]

\* The hook tested both directions: the value inside DataDir and DataDir
\* inside the value.
CheckHookBothWays(newval, source) ==
    IF source = "PGC_S_DEFAULT" THEN [ok |-> TRUE, val |-> newval]
    ELSE IF source # "PGC_S_FILE" THEN [ok |-> FALSE, val |-> newval]
    ELSE IF IsNull(newval) \/ newval = Some(EmptyString)
    THEN [ok |-> FALSE, val |-> newval]
    ELSE IF ~is_absolute_path(newval[1]) THEN [ok |-> FALSE, val |-> newval]
    ELSE LET c == canonicalize_path(newval[1])
         IN  [ok |-> ~path_is_prefix_of_path(DataDir, c)
                     /\ ~path_is_prefix_of_path(c, DataDir),
              val |-> Some(c)]

\* check_hook: ok is its return value, val is *newval when it returns.
check_hook(newval, source) ==
    IF source = "PGC_S_DEFAULT" THEN [ok |-> TRUE, val |-> newval]
    ELSE IF source # "PGC_S_FILE" THEN [ok |-> FALSE, val |-> newval]
    ELSE IF IsNull(newval) \/ newval = Some(EmptyString)
    THEN [ok |-> FALSE, val |-> newval]
    ELSE IF ~is_absolute_path(newval[1]) THEN [ok |-> FALSE, val |-> newval]
    ELSE LET c == canonicalize_path(newval[1])
         IN  [ok |-> ~path_is_prefix_of_path(DataDir, c), val |-> Some(c)]

\* The server gives the variable a value: the boot value NULL with source
\* PGC_S_DEFAULT, any value from postgresql.conf or from a SET command.  The
\* variable takes the value when the hook returns true.
setLocation ==
    \E newval \in NewValues, source \in GucSources :
        LET r == check_hook(newval, source)
        IN  /\ source = "PGC_S_DEFAULT" => IsNull(newval)
            /\ location' = IF r.ok THEN r.val ELSE location
            /\ nullread' \in IF IsNull(location') /\ build = "pg_sqlite_fs"
                                /\ ~traps
                             THEN BOOLEAN ELSE {FALSE}
            /\ op' = "setLocation"
            /\ result' = IF r.ok THEN "true" ELSE "false"
            /\ stage' = "done"
            /\ txn' = "none"
            /\ written' = 0
            /\ changed' = FALSE
            /\ db' = "closed"
            /\ UNCHANGED <<traps, build, exists, schema, entries, files, attrs,
                           callers, reserved, serial>>

\* The store functions under a location that changes.
NextRoot ==
    \/ setLocation
    \/ createStore
    \/ destroyStore
    \/ upsertEntry(1)
    \/ truncateEntries

SpecRoot == Init /\ [][NextRoot]_vars

----------------------------------------------------------------------------
(* Properties *)

BulkLoads == {"bulkLoadEntries", "bulkLoadFiles"}

Tables == <<entries, files, attrs>>

\* C1: a bulk load in which a row fails, for a null in a required column or
\* for a uniqueness violation, after any number of rows it had already
\* written, leaves the tables entries, files and extended_attributes exactly
\* as they were before the call: no earlier row of the load is there.
C1_BulkLoadAtomic ==
    [][(op' \in BulkLoads /\ stage' \in {"null", "step", "crash"})
          => Tables' = Tables]_vars

\* A load that had stepped at least one row when a later row failed.
C1_Witness ==
    /\ op \in BulkLoads
    /\ stage \in {"null", "step"}
    /\ written >= 1
    /\ txn = "rollback"

\* C2: a bulk load returns false whenever a row or an earlier step failed,
\* and true only when its transaction was committed: a load that was rolled
\* back never returns true.
C2_RolledBackReturnsFalse ==
    op \in BulkLoads =>
        /\ (txn = "rollback" => result = "false")
        /\ (result = "true" => txn = "commit")

\* C3: a bulk load whose query has another number of columns than the loader
\* wants, or a column of another type, returns false and leaves the store as
\* it was.
C3_ShapeMismatchFails ==
    [][(op' \in BulkLoads /\ stage' \in {"natts", "type"})
          => (result' = "false" /\ Cur' = Cur)]_vars

\* The arguments of pg_sqlite_fs_insert_entry that carry the columns of one
\* row of an entries query of the accepted shape.
RowArg(b, row) ==
    IF b = "pg_sqlite_fs"
    THEN [path |-> Some(StorePath), inode |-> row[1], name |-> row[2],
          parent_inode |-> row[3], decrypted_size |-> row[4],
          ctime |-> row[5][1], mtime |-> row[6][1], nlink |-> row[7][1],
          size |-> row[8][1], is_dir |-> row[9][1], nargs |-> 9]
    ELSE [path |-> Some(StorePath), inode |-> row[1], name |-> row[2],
          parent_inode |-> row[3], decrypted_size |-> Null,
          ctime |-> row[4][1], mtime |-> row[5][1], nlink |-> row[6][1],
          size |-> row[7][1], is_dir |-> row[8][1], nargs |-> 9]

\* The store after upsertEntry was called on each row from row i on.
RECURSIVE UpsertEach(_, _, _)
UpsertEach(st, rows, i) ==
    IF i > Len(rows) THEN st
    ELSE UpsertEach(pg_sqlite_fs_insert_entry(build, location, st,
                                              RowArg(build, rows[i])).st,
                    rows, i + 1)

\* C4: on a created store, a bulkLoadEntries that returns true leaves the
\* store in the state that calling upsertEntry on each of its rows, in
\* order, from the same prior state leaves it in.
C4_BulkEqualsUpserts ==
    \A c \in EntryLoads(build, 2) :
        (schema /\ c.path = StorePath /\ c.q.types = EntriesShape(build)) =>
            LET o == pg_sqlite_fs_insert_entries(build, location, Cur, c.path,
                                                 c.q, c.oob, traps)
            IN  o.res = "true" => o.st = UpsertEach(Cur, c.q.rows, 1)

\* C5: a bulk load called again with the same rows right after a call that
\* returned true returns true and leaves the store as the first call left it.
C5_BulkLoadIdempotent ==
    /\ \A c \in EntryLoads(build, 1), g \in BOOLEAN :
        LET first == pg_sqlite_fs_insert_entries(build, location, Cur, c.path,
                                                 c.q, c.oob, traps)
            again == pg_sqlite_fs_insert_entries(build, location, first.st,
                                                 c.path, c.q, g, traps)
        IN  first.res = "true" => (again.res = "true" /\ again.st = first.st)
    /\ \A c \in FileLoads(build), g \in BOOLEAN :
        LET first == pg_sqlite_fs_insert_files(build, location, Cur, c.path,
                                               c.q, c.oob, traps)
            again == pg_sqlite_fs_insert_files(build, location, first.st,
                                               c.path, c.q, g, traps)
        IN  first.res = "true" => (again.res = "true" /\ again.st = first.st)

\* C6: no two rows of entries with different inodes have the same
\* parent_inode and name, whatever upsertEntry, deleteEntrySubtree,
\* truncateEntries and bulkLoadEntries calls were made.
C6_UniqueNames ==
    \A x, y \in entries :
        (x.parent_inode = y.parent_inode /\ x.name = y.name) => x.inode = y.inode

\* A write was refused for the index while several entries are stored.
C6_Witness ==
    /\ op \in {"upsertEntry", "bulkLoadEntries"}
    /\ stage = "step"
    /\ \E x, y \in entries : x.inode # y.inode /\ x.name = y.name

\* The well-formed calls of upsertEntry on the store.
GoodEntryCalls == {a \in EntryCalls(build, 3) :
                     /\ a.path = Some(StorePath)
                     /\ ~IsNull(a.inode) /\ ~IsNull(a.name)
                     /\ ~IsNull(a.parent_inode)}

\* C7: upsertEntry with the parent_inode and name of an existing entry of
\* another inode returns false and leaves the store unchanged.
C7_ConflictRefused ==
    \A a \in GoodEntryCalls :
        (\E x \in entries : /\ x.parent_inode = a.parent_inode[1]
                            /\ x.name = a.name[1]
                            /\ x.inode # a.inode[1]) =>
            LET o == pg_sqlite_fs_insert_entry(build, location, Cur, a)
            IN  o.res = "false" /\ o.st = Cur

\* An upsertEntry was refused by the index and changed nothing.
C7_Witness ==
    /\ op = "upsertEntry"
    /\ result = "false"
    /\ stage = "step"
    /\ ~changed

C9_UpsertIdempotent ==
    \A a \in GoodEntryCalls :
        LET first == pg_sqlite_fs_insert_entry(build, location, Cur, a)
            again == pg_sqlite_fs_insert_entry(build, location, first.st, a)
        IN  first.res = "true" =>
                /\ again.res = "true"
                /\ again.st = first.st
                /\ Cardinality({x \in again.st.entries : x.inode = a.inode[1]}) = 1

\* An upsertEntry found its row there with the very values it supplied.
C9_Witness ==
    /\ op = "upsertEntry"
    /\ result = "true"
    /\ stage = "update"
    /\ ~changed

\* C10: whenever createStore returns true, from any state the functions can
\* bring the store to, the entry (inode 1, name "/", parent_inode 1) exists.
C10_RootAfterCreate ==
    (op = "createStore" /\ result = "true") =>
        \E x \in entries : x.inode = 1 /\ x.name = "/" /\ x.parent_inode = 1

\* C11: in every state of a created store, whatever upsertEntry, upsertFile,
\* deleteFile, deleteEntrySubtree, truncate and bulk load calls were made,
\* exactly one entry has inode 1, name "/" and parent_inode 1.
C11_RootInvariant ==
    schema =>
        Cardinality({x \in entries :
                       x.inode = 1 /\ x.name = "/" /\ x.parent_inode = 1}) = 1

\* C12: after a truncateEntries that returned true, whatever inodes the
\* entries had before (zero and negative ones included), entries holds the
\* row of inode 1 as it was and no row of another inode.
C12_TruncateKeepsOnlyRoot ==
    [][(op' = "truncateEntries" /\ result' = "true")
          => entries' = {x \in entries : x.inode = 1}]_vars

\* C13: after a truncateFiles that returned true the table files has no
\* row, whatever it held before.
C13_TruncateFilesEmpties ==
    [][(op' = "truncateFiles" /\ result' = "true") => files' = {}]_vars

\* A truncateFiles returned true on a store whose table files had rows.
C13_Witness ==
    /\ op = "truncateFiles"
    /\ result = "true"
    /\ changed
    /\ files = {}

\* C14: a deleteEntrySubtree(i) that returns true removes exactly the entries
\* whose inode is i or whose parent_inode is i and touches nothing else: an
\* entry two levels below i stays, its parent_inode unchanged, even though the
\* entry it names is gone.
C14_DeletesOneLevel ==
    \A i \in Inodes :
        LET o == pg_sqlite_fs_delete_entry(build, location, Cur, StorePath, i)
        IN  o.res = "true" =>
                /\ \A x \in entries :
                      x \in o.st.entries <=> (x.inode # i /\ x.parent_inode # i)
                /\ o.st.entries \subseteq entries
                /\ o.st.files = files
                /\ o.st.attrs = attrs
                /\ o.st.exists /\ o.st.schema

\* A deleteEntrySubtree returned true, removed rows, and left an entry whose
\* parent_inode names no stored entry.
C14_Witness ==
    /\ op = "deleteEntrySubtree"
    /\ result = "true"
    /\ changed
    /\ \E x \in entries : \A y \in entries : y.inode # x.parent_inode

\* C15: on a store file that exists, deleteFile(i) returns true, removes the
\* payload row of inode i when there is one and leaves every other payload
\* row, and every other table, unchanged; when there is no such row the store
\* is unchanged.
C15_DeleteFileOnPresent ==
    \A i \in WideFileInodes :
        LET o == pg_sqlite_fs_delete_file(build, location, Cur, StorePath, i)
        IN  exists =>
                /\ o.res = "true"
                /\ o.st.files = {x \in files : x.inode # i}
                /\ o.st.entries = entries
                /\ o.st.attrs = attrs
                /\ o.st.exists /\ o.st.schema = schema

\* The same statement on a store that createStore has set up.
C15_DeleteFileOnCreated ==
    \A i \in WideFileInodes :
        LET o == pg_sqlite_fs_delete_file(build, location, Cur, StorePath, i)
        IN  (exists /\ schema) =>
                /\ o.res = "true"
                /\ o.st.files = {x \in files : x.inode # i}
                /\ o.st.entries = entries
                /\ o.st.attrs = attrs
                /\ o.st.exists /\ o.st.schema

\* A deleteFile returned true and removed one payload row of two.
C15_Witness ==
    /\ op = "deleteFile"
    /\ result = "true"
    /\ changed
    /\ files # {}

\* C16: while the store file is absent, createStore is the only function
\* that brings it into existence; every other function called then does not
\* return true and leaves the file absent.
C16_OnlyCreateMakesPresent ==
    [][(~exists /\ op' # "createStore")
          => (~exists' /\ result' # "true")]_vars

\* C17: destroyStore on a store file that exists and can be removed returns
\* true and leaves no file; on an absent file it returns false and the file
\* stays absent.
C17_DestroyStore ==
    LET o == pg_sqlite_fs_remove(build, location, Cur, StorePath)
    IN  convert_and_check_path(build, location, StorePath) =>
            /\ exists => (o.res = "true" /\ o.st = AbsentStore)
            /\ ~exists => (o.res = "false" /\ o.st = Cur /\ ~o.st.exists)

\* A destroyStore returned true and removed a store that held rows.
C17_Witness ==
    /\ op = "destroyStore"
    /\ result = "true"
    /\ changed
    /\ ~exists

\* C18: createStore is idempotent. On a store file that has the schema it
\* returns true and every row already in entries, files and
\* extended_attributes stays as it was; on an absent file, calling it twice
\* gives the store that calling it once gives.
C18_CreateIdempotent ==
    LET once == pg_sqlite_fs_create(build, location, Cur, StorePath)
        again == pg_sqlite_fs_create(build, location, once.st, StorePath)
    IN  convert_and_check_path(build, location, StorePath) =>
            /\ (exists /\ schema) =>
                  /\ once.res = "true"
                  /\ entries \subseteq once.st.entries
                  /\ once.st.files = files
                  /\ once.st.attrs = attrs
            /\ ~exists =>
                  /\ once.res = "true"
                  /\ again.res = "true"
                  /\ again.st = once.st

\* A createStore returned true on a store that already held entries beside
\* the root and payload rows, and changed nothing.
C18_Witness ==
    /\ op = "createStore"
    /\ result = "true"
    /\ ~changed
    /\ Cardinality(entries) > 1
    /\ files # {}

\* The columns of a query row that the spec lets be null: decrypted_size for
\* entries (pg_sqlite_fs.c only, pg.c reads no such column), header for
\* files (prepend and append are no columns of a 4-column query).
OptionalEntryCols(b) == IF b = "pg_sqlite_fs" THEN {4} ELSE {}

OptionalFileCols(b) == IF b = "pg_sqlite_fs" THEN {3} ELSE {4}

\* Loads on the store whose rows are null in some optional column and in no
\* other column.
NullOnlyIn(loads, optional) ==
    {c \in loads :
        /\ c.path = StorePath
        /\ \E k \in 1..Len(c.q.rows), j \in optional :
              j <= Len(c.q.rows[k]) /\ IsNull(c.q.rows[k][j])
        /\ \A k \in 1..Len(c.q.rows) :
              \A j \in 1..Len(c.q.rows[k]) :
                  IsNull(c.q.rows[k][j]) => j \in optional}

\* C19: a null in an optional column of a bulk-load row never stops the
\* load: no such load ends at the reading of a row, and a bulkLoadFiles of
\* such rows that reaches its rows writes every one of them, the last row of
\* each inode being stored with its null header.
C19_NullOptionalTolerated ==
    schema =>
        /\ \A c \in NullOnlyIn(EntryLoads(build, 2), OptionalEntryCols(build)) :
              LET o == pg_sqlite_fs_insert_entries(build, location, Cur,
                                                   c.path, c.q, c.oob, traps)
              IN  o.stage \notin {"null", "crash"}
        /\ \A c \in NullOnlyIn(FileLoads(build), OptionalFileCols(build)) :
              LET o == pg_sqlite_fs_insert_files(build, location, Cur,
                                                 c.path, c.q, c.oob, traps)
                  n == Len(c.q.rows)
              IN  /\ o.stage \notin {"null", "crash"}
                  /\ o.stage \notin {"natts", "type"} =>
                        /\ o.written = n
                        /\ \E x \in o.st.files :
                              /\ x.inode = c.q.rows[n][1][1]
                              /\ x.header = c.q.rows[n][CHOOSE j \in OptionalFileCols(build) : TRUE]

\* The columns of a bulkLoadFiles row that the spec requires: inode,
\* mountpoint, rel_path and payload_size in pg.c; inode and path in
\* pg_sqlite_fs.c, which has no payload_size.
RequiredFileCols(b) == IF b = "pg_sqlite_fs" THEN {1, 2} ELSE {1, 2, 3, 5}

\* C20: a bulkLoadFiles that reaches its rows, one of which is null in a
\* column other than header, prepend and append, returns false and stores no
\* row.
C20_NullRequiredAborts ==
    schema =>
        \A c \in FileLoads(build) :
            LET o == pg_sqlite_fs_insert_files(build, location, Cur,
                                               c.path, c.q, c.oob, traps)
            IN  (/\ c.path = StorePath
                 /\ o.stage \notin {"execute", "natts", "type"}
                 /\ \E k \in 1..Len(c.q.rows), j \in RequiredFileCols(build) :
                       IsNull(SPI_getbinval(c.q, c.q.rows[k], j)))
                => (o.res = "false" /\ o.st.files = files)

\* The same without the returned value: no row is stored.
C20_NullRequiredStoresNothing ==
    schema =>
        \A c \in FileLoads(build) :
            LET o == pg_sqlite_fs_insert_files(build, location, Cur,
                                               c.path, c.q, c.oob, traps)
            IN  (/\ c.path = StorePath
                 /\ o.stage \notin {"execute", "natts", "type"}
                 /\ \E k \in 1..Len(c.q.rows), j \in RequiredFileCols(build) :
                       IsNull(SPI_getbinval(c.q, c.q.rows[k], j)))
                => o.st.files = files

\* C21: whatever functions have been called, and however the last one was
\* left (an open failure, a rejected argument, a failed statement), the
\* sqlite3 handle it opened has been closed.
C21_HandleClosed == db = "closed"

\* The places where a call stops for a failure of the engine: the store
\* file cannot be opened, a statement cannot be prepared, bound or executed.
EngineFailures == {"open", "prepare", "bind", "step", "exec"}

\* C22: a call stopped by a failure of the engine ends by returning false;
\* it is never left by a raised error.
C22_EngineFailureReturnsFalse ==
    stage \in EngineFailures => result = "false"

\* The second half alone: such a call is not left by elog(ERROR).
C22_EngineFailureNotRaised ==
    stage \in EngineFailures => result # "error"

\* C23: however the statements of calls made by independent processes on
\* one store file interleave (bulk loads with bulk loads, with upserts,
\* deletions and truncations), table entries of the file is at every moment
\* what the calls that committed so far give when run one after the other in
\* the order of their commits; the rows a bulk load has written and not yet
\* committed are in no state the file is ever in.
C23_Serializable ==
    /\ entries = serial
    /\ \A c \in Callers :
          (callers[c].pc = "rows" /\ callers[c].w > 0) => reserved = c

\* A bulk load of two rows has committed while the other process is in the
\* middle of a bulk load of its own.
C23_Witness ==
    /\ op = "bulkLoadEntries"
    /\ txn = "commit"
    /\ written = 2
    /\ \E c \in Callers : callers[c].pc = "rows" /\ callers[c].i > 1

\* C24: a call whose write meets SQLITE_BUSY, the store file being locked by
\* another process, ends at that one attempt: it returns false and the file
\* keeps the rows it had, a bulk load having been rolled back.
C24_BusyFailsOnce ==
    [][stage' = "busy"
          => /\ result' = "false"
             /\ entries' = entries
             /\ txn' \in {"none", "rollback"}
             /\ \E c \in Callers :
                   /\ callers'[c] = Idle
                   /\ reserved' # c]_vars

\* The same without the returned value.
C24_BusyWritesNothing ==
    [][stage' = "busy"
          => /\ entries' = entries
             /\ txn' \in {"none", "rollback"}]_vars

\* C25: upsertEntry called with a null store path, inode, name or
\* parent_inode, or with fewer than four arguments, is left by an error
\* raised before sqlite3_open: no file is created, no handle is left and
\* the store is as it was.
C25_UpsertEntryValidates ==
    \A a \in EntryCalls(build, 1) :
        LET o == pg_sqlite_fs_insert_entry(build, location, Cur, a)
        IN  (\/ a.nargs < 4
             \/ IsNull(a.path) \/ IsNull(a.inode)
             \/ IsNull(a.name) \/ IsNull(a.parent_inode))
            => /\ o.res = "error"
               /\ o.stage \in {"nargs", "args"}
               /\ o.st = Cur
               /\ o.db = "closed"

\* An upsertEntry with a null argument was refused on a store holding rows.
C25_Witness ==
    /\ op = "upsertEntry"
    /\ result = "error"
    /\ stage \in {"nargs", "args"}
    /\ ~changed
    /\ Cardinality(entries) > 1

\* upsertFile with nothing but the store path and the inode.
OnlyInode(i) == FileArg(Some(StorePath), Some(i), Null, Null, Null, Null, Null, Null)

\* C26: on a created store upsertFile with only the inode returns true; the
\* payload row of that inode then has payload_size 0 and null mountpoint,
\* rel_path, header, prepend and append, whatever it held before, and the
\* other payload rows are as they were.
C26_UpsertFileOnlyInode ==
    schema =>
        \A i \in WideFileInodes, log \in BOOLEAN :
            LET o == pg_sqlite_fs_insert_file(build, location, Cur, OnlyInode(i),
                                              [log |-> log, trp |-> traps])
            IN  /\ o.res = "true"
                /\ {x \in o.st.files : x.inode = i}
                      = {FileRow(i, Null, Null, Null, 0, Null, Null)}
                /\ {x \in o.st.files : x.inode # i}
                      = {x \in files : x.inode # i}

\* The same for pg.c built or run so that the arguments of the DEBUG1
\* message are not evaluated, or evaluated without a fault.
C26_UpsertFileOnlyInodePg ==
    (schema /\ build = "pg") =>
        \A i \in WideFileInodes, log \in BOOLEAN :
            LET o == pg_sqlite_fs_insert_file(build, location, Cur, OnlyInode(i),
                                              [log |-> log, trp |-> traps])
            IN  ~(log /\ traps) =>
                /\ o.res = "true"
                /\ {x \in o.st.files : x.inode = i}
                      = {FileRow(i, Null, Null, Null, 0, Null, Null)}
                /\ {x \in o.st.files : x.inode # i}
                      = {x \in files : x.inode # i}

\* Store paths that the configuration does not allow: not absolute, not
\* below sqlite_fs.location, or any path when no location is set.
Unconfined ==
    {p \in Paths : \/ ~p.abs
                   \/ IsNull(location)
                   \/ ~path_is_prefix_of_path(location[1], p)}

\* The outcome o is an error raised with the store as it was and no handle.
RefusedUntouched(o) ==
    /\ o.res = "error"
    /\ o.stage = "path"
    /\ o.st = Cur
    /\ o.db = "closed"

\* C27: every function called with a store path that is not absolute or not
\* below the configured location, or with no location configured, is left
\* by a raised error before any file is opened, created, changed or removed.
C27_PathConfined ==
    \A p \in Unconfined :
        LET pl == CHOOSE x \in Payloads(build) : x.size = 0
            q == Query(TRUE, <<>>, <<>>)
        IN  /\ RefusedUntouched(pg_sqlite_fs_create(build, location, Cur, p))
            /\ RefusedUntouched(pg_sqlite_fs_remove(build, location, Cur, p))
            /\ RefusedUntouched(pg_sqlite_fs_insert_entry(build, location, Cur,
                  EntryArg(Some(p), Some(2), Some("a"), Some(1), pl)))
            /\ RefusedUntouched(pg_sqlite_fs_insert_file(build, location, Cur,
                  FileArg(Some(p), Some(2), Some("m"), Some("p"), Some("h"),
                          Null, Null, Null),
                  [log |-> FALSE, trp |-> traps]))
            /\ RefusedUntouched(pg_sqlite_fs_delete_file(build, location, Cur, p, 2))
            /\ RefusedUntouched(pg_sqlite_fs_delete_entry(build, location, Cur, p, 2))
            /\ \A t \in {"entries", "files", "extended_attributes"} :
                  RefusedUntouched(pg_sqlite_fs_truncate_table(build, location,
                                                               Cur, p, t))
            /\ RefusedUntouched(pg_sqlite_fs_exec(build, location, Cur, Some(p),
                                                  Some("")))
            /\ RefusedUntouched(pg_sqlite_fs_insert_entries(build, location, Cur,
                                                            p, q, FALSE, traps))
            /\ RefusedUntouched(pg_sqlite_fs_insert_files(build, location, Cur,
                                                          p, q, FALSE, traps))

\* The same for pg.c, which tests the location for NULL.
C27_PathConfinedPg == build = "pg" => C27_PathConfined

\* The outcomes of every call the exported functions accept in the current
\* state, pg_sqlite_fs_exec with its caller-written statement left aside.
Surface ==
    {pg_sqlite_fs_create(build, location, Cur, p) : p \in Paths}
    \cup {pg_sqlite_fs_remove(build, location, Cur, p) : p \in Paths}
    \cup {pg_sqlite_fs_insert_entry(build, location, Cur, a) :
            a \in EntryCalls(build, 1)}
    \cup {pg_sqlite_fs_insert_file(build, location, Cur, a,
                                   [log |-> FALSE, trp |-> traps]) :
            a \in FileCalls(build, 1)}
    \cup {pg_sqlite_fs_delete_file(build, location, Cur, p, 2) : p \in Paths}
    \cup {pg_sqlite_fs_delete_entry(build, location, Cur, p, 2) : p \in Paths}
    \cup {pg_sqlite_fs_truncate_table(build, location, Cur, p, t) :
            p \in Paths, t \in {"entries", "files", "extended_attributes"}}
    \cup {pg_sqlite_fs_insert_entries(build, location, Cur, c.path, c.q, c.oob,
                                      traps) : c \in EntryLoads(build, 1)}
    \cup {pg_sqlite_fs_insert_files(build, location, Cur, c.path, c.q, c.oob,
                                    traps) : c \in FileLoads(build)}

\* C28: on a created store, for an inode, an attribute name and a value,
\* some exported function can be called so that afterwards
\* extended_attributes holds exactly one row of that inode and name, with
\* that value, its other rows being as they were (upsertAttribute).
C28_AttributeOperations ==
    schema =>
        \E o \in Surface :
            /\ o.res = "true"
            /\ {x \in o.st.attrs : x.inode = 2 /\ x.name = "user.a"}
                  = {[inode |-> 2, name |-> "user.a", value |-> "v"]}
            /\ {x \in o.st.attrs : ~(x.inode = 2 /\ x.name = "user.a")}
                  = {x \in attrs : ~(x.inode = 2 /\ x.name = "user.a")}

\* No function of the module writes a row of extended_attributes.
C28_NoAttributeEver == attrs = {}

\* C29: a bulk load that stops because the query is no SELECT, or has the
\* wrong number or types of columns, has begun no transaction on the store
\* file (it has none to close) and leaves the file as it found it.
C29_ValidatedBeforeBegin ==
    (op \in BulkLoads /\ stage \in {"execute", "natts", "type"})
        => (txn = "none" /\ ~changed)

\* The effect alone: such a load leaves an existing store file as it was.
C29_MismatchChangesNothing ==
    [][(op' \in BulkLoads /\ stage' \in {"execute", "natts", "type"} /\ exists)
          => UNCHANGED <<exists, schema, entries, files, attrs>>]_vars

\* The bulk loads that got as far as beginning their transaction.
Begun == op \in BulkLoads /\ stage \notin {"path", "open"}

\* C30: a bulk load that has begun its transaction ends it once before it
\* closes the store: with COMMIT when the query was executed, its shape
\* accepted and every row of the row-set written, an empty row-set included
\* (the load ended at stage "done"), and with ROLLBACK in every other case.
C30_CommitIffAllWritten ==
    Begun => /\ txn \in {"commit", "rollback"}
             /\ txn = "commit" <=> stage = "done"
             /\ db = "closed"

\* The same for the loads that do not die while reading a row: all of it
\* holds but for the empty row-set, which is rolled back.
C30_CommitIffSomeWritten ==
    (Begun /\ result # "crash")
        => /\ txn \in {"commit", "rollback"}
           /\ txn = "commit" <=> (stage = "done" /\ written > 0)
           /\ db = "closed"

\* The stages at which a bulk load stops before its shape was accepted.
BeforeRows == {"path", "open", "prepare", "execute", "natts", "type"}

\* C31: a row-set that a loader accepts has exactly as many columns as the
\* loader type-checks and reads, and a row-set of exactly the type-checked
\* columns is accepted: (inode, mountpoint, rel_path, header, payload_size,
\* prepend, append) for bulkLoadFiles, the entry columns for bulkLoadEntries.
C31_AcceptedColumnsAreChecked ==
    schema =>
        /\ \A c \in FileLoads(build) :
              LET o == pg_sqlite_fs_insert_files(build, location, Cur, c.path,
                                                 c.q, c.oob, traps)
              IN  o.stage \notin BeforeRows
                      => Len(c.q.types) = Len(FilesTypes(build))
        /\ \A c \in EntryLoads(build, 1) :
              LET o == pg_sqlite_fs_insert_entries(build, location, Cur,
                                                   c.path, c.q, c.oob, traps)
              IN  o.stage \notin BeforeRows
                      => Len(c.q.types) = Len(EntriesTypes(build))
        /\ pg_sqlite_fs_insert_files(build, location, Cur, StorePath,
               Query(TRUE, FilesTypes(build), <<>>), FALSE, traps).stage
             \notin BeforeRows
        /\ pg_sqlite_fs_insert_entries(build, location, Cur, StorePath,
               Query(TRUE, EntriesTypes(build), <<>>), FALSE, traps).stage
             \notin BeforeRows

\* The same in the variant of pg_sqlite_fs.c alone, where the accepted
\* counts (3 and 9) are the counts of the columns type-checked and read.
C31_AcceptedColumnsAreCheckedFs ==
    build = "pg_sqlite_fs" => C31_AcceptedColumnsAreChecked

\* The entries of tbl whose parent_inode is the inode of no entry of tbl.
Orphans(tbl) == {x \in tbl : \A y \in tbl : y.inode # x.parent_inode}

\* The well-formed calls of upsertEntry on the store.
TreeCalls ==
    {a \in EntryCalls(build, 2) :
        /\ a.nargs >= 4
        /\ a.path = Some(StorePath)
        /\ ~IsNull(a.inode) /\ ~IsNull(a.name) /\ ~IsNull(a.parent_inode)}

\* C32: the parent of an entry is never looked up.  On a created store an
\* upsertEntry whose (parent_inode, name) is held by no entry of another
\* inode returns true and stores the row under the parent_inode it was
\* given, whether that is the inode of an entry, of no entry, the row's own
\* inode or the inode of a descendant; a bulkLoadEntries of such a row is
\* not refused by the write statement and, once the row was read, commits
\* it; and deleteEntrySubtree returns true whatever orphans it leaves.
C32_ParentNeverChecked ==
    (schema /\ convert_and_check_path(build, location, StorePath)) =>
        /\ \A a \in TreeCalls :
              LET o == pg_sqlite_fs_insert_entry(build, location, Cur, a)
              IN  (\A x \in entries :
                      (x.parent_inode = a.parent_inode[1] /\ x.name = a.name[1])
                          => x.inode = a.inode[1])
                  => /\ o.res = "true"
                     /\ \E x \in o.st.entries :
                           /\ x.inode = a.inode[1]
                           /\ x.parent_inode = a.parent_inode[1]
        /\ \A c \in EntryLoads(build, 2) :
              LET o == pg_sqlite_fs_insert_entries(build, location, Cur,
                                                   c.path, c.q, c.oob, traps)
              IN  (c.path = StorePath /\ c.q.select /\ Len(c.q.rows) = 1
                   /\ c.q.types = EntriesShape(build)
                   /\ ~IsNull(c.q.rows[1][1])
                   /\ \A x \in entries :
                         (x.parent_inode = c.q.rows[1][3][1]
                          /\ x.name = c.q.rows[1][2][1])
                             => x.inode = c.q.rows[1][1][1])
                  => /\ o.stage \in {"done", "crash"}
                     /\ o.stage = "done" =>
                           /\ o.txn = "commit"
                           /\ \E x \in o.st.entries :
                                 /\ x.inode = c.q.rows[1][1][1]
                                 /\ x.parent_inode = c.q.rows[1][3][1]
        /\ \A i \in Inodes :
              pg_sqlite_fs_delete_entry(build, location, Cur, StorePath, i).res
                  = "true"

\* An upsertEntry returned true and closed a cycle between two entries,
\* neither of which is its own parent.
C32_Witness ==
    /\ op = "upsertEntry"
    /\ result = "true"
    /\ changed
    /\ \E x, y \in entries :
          /\ x.inode # y.inode
          /\ x.parent_inode = y.inode
          /\ y.parent_inode = x.inode

\* An upsertEntry returned true and stored an entry whose parent_inode is
\* the inode of no entry.
C32_WitnessOrphan ==
    op = "upsertEntry" /\ result = "true" /\ changed /\ Orphans(entries) # {}

\* A bulkLoadEntries committed an entry that is its own parent.
C32_WitnessSelf ==
    /\ op = "bulkLoadEntries"
    /\ txn = "commit"
    /\ \E x \in entries : x.inode # 1 /\ x.parent_inode = x.inode

\* The rows of q whose inode is not null, occurs in an earlier row too and
\* in no later row: the last occurrences of the repeated inodes.
LastRepeated(q) ==
    {k \in 1..Len(q.rows) :
        /\ ~IsNull(q.rows[k][1])
        /\ \E j \in 1..(k - 1) : q.rows[j][1] = q.rows[k][1]
        /\ \A j \in (k + 1)..Len(q.rows) : q.rows[j][1] # q.rows[k][1]}

\* C33: after a bulk load that returned true, the row stored for an inode
\* that occurs in several rows of the row-set holds in every field the
\* value of the last of these rows, and nothing of an earlier one.
C33_LastOccurrenceStored ==
    /\ \A c \in EntryLoads(build, 2) :
          LET o == pg_sqlite_fs_insert_entries(build, location, Cur, c.path,
                                               c.q, c.oob, traps)
          IN  (o.res = "true" /\ o.stage \notin BeforeRows) =>
                  \A k \in LastRepeated(c.q) :
                      EntriesBind(build, c.q, c.q.rows[k]) \in o.st.entries
    /\ \A c \in FileLoads(build) :
          LET o == pg_sqlite_fs_insert_files(build, location, Cur, c.path,
                                             c.q, c.oob, traps)
          IN  (o.res = "true" /\ o.stage \notin BeforeRows) =>
                  \A k \in LastRepeated(c.q) :
                      FilesBind(build, c.q, c.q.rows[k]) \in o.st.files

\* The same for the bulk loads that committed.
C33_LastOccurrenceCommitted ==
    /\ \A c \in EntryLoads(build, 2) :
          LET o == pg_sqlite_fs_insert_entries(build, location, Cur, c.path,
                                               c.q, c.oob, traps)
          IN  o.txn = "commit" =>
                  \A k \in LastRepeated(c.q) :
                      EntriesBind(build, c.q, c.q.rows[k]) \in o.st.entries
    /\ \A c \in FileLoads(build) :
          LET o == pg_sqlite_fs_insert_files(build, location, Cur, c.path,
                                             c.q, c.oob, traps)
          IN  o.txn = "commit" =>
                  \A k \in LastRepeated(c.q) :
                      FilesBind(build, c.q, c.q.rows[k]) \in o.st.files

\* The paths a store function is called with, and a file of DataDir.
ConfigPaths == Paths \cup {DataDirPath}

\* C34: a location that the check hook let through is absolute, not empty
\* and disjoint from DataDir (neither below it nor above it), and no path
\* that convert_and_check_path accepts under it lies inside DataDir.
C34_RootDisjointFromDataDir ==
    ~IsNull(location) =>
        /\ is_absolute_path(location[1])
        /\ location[1] # EmptyString
        /\ ~path_is_prefix_of_path(DataDir, location[1])
        /\ ~path_is_prefix_of_path(location[1], DataDir)
        /\ \A p \in ConfigPaths :
              convert_and_check_path(build, location, p)
                  => ~path_is_prefix_of_path(DataDir, p)

\* One direction holds: a location that the hook let through is absolute,
\* not empty and not inside DataDir.
C34_RootNotBelowDataDir ==
    ~IsNull(location) =>
        /\ is_absolute_path(location[1])
        /\ location[1] # EmptyString
        /\ ~path_is_prefix_of_path(DataDir, location[1])

\* The row of an entries query that carries the entry x under the name n.
RenameRow(b, x, n) ==
    EntryRow(b, Some(x.inode), Some(n), Some(x.parent_inode),
             [decrypted_size |-> x.decrypted_size, ctime |-> x.ctime,
              mtime |-> x.mtime, nlink |-> x.nlink, size |-> x.size,
              is_dir |-> x.is_dir = 1])

\* The query whose two rows exchange the names of the entries x and y.
SwapNames(b, x, y) ==
    Query(TRUE, EntriesShape(b),
          <<RenameRow(b, x, y.name), RenameRow(b, y, x.name)>>)

\* Pairs of stored siblings with different names.
Siblings ==
    {p \in entries \X entries :
        /\ p[1].inode # p[2].inode
        /\ p[1].parent_inode = p[2].parent_inode
        /\ p[1].name # p[2].name}

\* C35: a bulkLoadEntries whose two rows exchange the names of two stored
\* siblings, which leaves (parent_inode, name) unique once both rows are
\* applied, fails: it returns false, writes no row and leaves the store as
\* it was, because its first row takes a name that is still held.
C35_SwapFails ==
    convert_and_check_path(build, location, StorePath) =>
        \A p \in Siblings :
            LET o == pg_sqlite_fs_insert_entries(build, location, Cur,
                         StorePath, SwapNames(build, p[1], p[2]), FALSE,
                         traps)
            IN  /\ o.res = "false"
                /\ o.st = Cur

\* The same without the value returned: the load whose rows were read stops
\* at the first row's step, is rolled back and leaves the store as it was.
C35_SwapRolledBack ==
    convert_and_check_path(build, location, StorePath) =>
        \A p \in Siblings :
            LET o == pg_sqlite_fs_insert_entries(build, location, Cur,
                         StorePath, SwapNames(build, p[1], p[2]), FALSE,
                         traps)
            IN  /\ o.st = Cur
                /\ o.written = 0
                /\ o.res # "crash" => (o.stage = "step" /\ o.txn = "rollback")

\* An upsertEntry returned true and two siblings of different names are
\* stored.
C35_SwapReachable ==
    Siblings # {} /\ op = "upsertEntry" /\ result = "true"

\* C36: a deleteFile(i) that returns true has executed its DELETE: no
\* payload row of inode i is stored when it returns; and a deleteFile whose
\* DELETE could not be executed, the store being locked by the bulk load of
\* another process, returns false.
C36_DeleteFileTrueMeansDeleted ==
    [][op' = "deleteFile" =>
          /\ result' = "true" =>
                \E i \in FileInodes : \A x \in files' : x.inode # i
          /\ stage' = "busy" => result' = "false"]_vars

\* Without the lock of another process the claim holds: a deleteFile that
\* returns true while no bulk load holds the write lock leaves no payload
\* row of its inode.
C36_UnlockedDeleteDeletes ==
    [][(op' = "deleteFile" /\ result' = "true" /\ stage' # "busy") =>
          \E i \in FileInodes : \A x \in files' : x.inode # i]_vars

EntryWriters ==
    {"upsertEntry", "deleteEntrySubtree", "truncateEntries", "bulkLoadEntries"}

OtherWriters ==
    {"upsertFile", "deleteFile", "truncateFiles", "bulkLoadFiles",
     "truncateAttributes"}

\* C37: upsertEntry, deleteEntrySubtree, truncateEntries and
\* bulkLoadEntries leave the tables files and extended_attributes as they
\* were; upsertFile, deleteFile, truncateFiles, bulkLoadFiles and
\* truncateAttributes leave the table entries as it was.
C37_OneTableOnly ==
    [][/\ op' \in EntryWriters => (files' = files /\ attrs' = attrs)
       /\ op' \in OtherWriters => entries' = entries]_vars

\* A deleteEntrySubtree returned true and removed the entry of an inode
\* whose payload row and attribute row are still stored.
C37_Witness ==
    /\ op = "deleteEntrySubtree"
    /\ result = "true"
    /\ changed
    /\ \E f \in files : \A x \in entries : x.inode # f.inode
    /\ \E a \in attrs : \A x \in entries : x.inode # a.inode

====
